---- MODULE Spec2Model ----
(***************************************************************************)
(* nobject-rs: reduction of a wavefront .obj / .mtl token stream into a    *)
(* Model (src/src/model.rs) and a list of Material (src/src/material.rs).  *)
(*                                                                         *)
(* Conventions of the model                                                *)
(*   Option<T>     a sequence of length 0 (None) or 1 (Some)               *)
(*   f32           an integer counting tenths: 2.5 is 25                   *)
(*   IResult       [ok |-> FALSE] or [ok |-> TRUE, rest |-> .., out |-> ..]*)
(*   HashMap<K,V>  a function whose DOMAIN is the set of keys              *)
(***************************************************************************)
EXTENDS Integers, Sequences, FiniteSets, TLC

VARIABLES
    tokens,       \* the token vector the tokenizer handed to parse
    input,        \* the part of tokens the parser has not consumed
    model,        \* model::parse: the fold accumulator (Model)
    elems,        \* model::parse: the ModelElements given to the fold closure so far
    obj_result,   \* model::parse: "running", then the returned Result
    elements,     \* material::parse: the Vec<MaterialElement> of parse_material_set
    applied,      \* material::parse: how many elements the for loop has visited
    res,          \* material::parse: the Vec<Material> under construction
    mtl_result,   \* material::parse: "parsing", "reducing", then the returned Result
    text,         \* the index groups of one f / l directive, as written
    parsed        \* what parse_face / parse_line returned for the tokens of text

vars == <<tokens, input, model, elems, obj_result,
          elements, applied, res, mtl_result, text, parsed>>

objVars == <<model, elems, obj_result>>
mtlVars == <<elements, applied, res, mtl_result>>
idxVars == <<text, parsed>>

(***************************************************************************)
(* Bounds                                                                  *)
(***************************************************************************)
MaxDirectives == 2    \* directives per geometry input, every directive kind
MaxFiling == 4        \* directives per geometry input, filing directives
MaxOrder == 4         \* directives per geometry input, vertex data among groups
MaxIndexGroups == 2   \* index groups per face / line directive
MaxMtl == 2           \* directives per material input, every element kind
MaxFields == 4        \* directives per material input, fields of records
MaxNums == 4          \* numbers written after a color shape
MaxOptions == 3       \* options written before the file name of a map
MaxRun == 3           \* options and file names written after a map keyword
MaxSettings == 3      \* directives per settings input
MaxOnOff == 3         \* directives per on / off input
MaxLines == 2         \* lines per text
MaxCommentLines == 2  \* lines per text with comments
MaxWords == 2         \* words written after a keyword
MaxSlashGroups == 3   \* index groups that end with a slash, per directive
MaxLoadLines == 2     \* lines per text loaded

(***************************************************************************)
(* Tokens (tokenizer/mod.rs Token)                                         *)
(***************************************************************************)
Kw(k) == [t |-> k]
TInt(i) == [t |-> "Int", i |-> i]
TFloat(f) == [t |-> "Float", f |-> f]
TStr(s) == [t |-> "String", s |-> s]
TSlash == [t |-> "Slash"]

None == <<>>
Some(x) == <<x>>

Err == [ok |-> FALSE]
Ok(rest, out) == [ok |-> TRUE, rest |-> rest, out |-> out]

\* macros.rs token_match!: consume one token whose variant is in kinds
token_match(in, kinds) ==
    IF in = <<>> THEN Err
    ELSE IF Head(in).t \in kinds THEN Ok(Tail(in), Head(in))
    ELSE Err

\* nom opt(token_match!(..)): never fails, yields an Option
opt_token(in, kinds) ==
    LET r == token_match(in, kinds)
    IN  IF r.ok THEN Ok(r.rest, Some(r.out)) ELSE Ok(in, None)

Num == {"Float", "Int"}

(***************************************************************************)
(* lib.rs conversions                                                      *)
(***************************************************************************)
\* `*i as f32`: an integer becomes that many whole units (ten tenths each)
get_token_float(tok) ==
    IF tok.t = "Float" THEN tok.f
    ELSE IF tok.t = "Int" THEN tok.i * 10
    ELSE 0

get_token_int(tok) == IF tok.t = "Int" THEN tok.i ELSE 0

\* f32::to_string of a non-negative number of tenths
f32_to_string(f) ==
    IF f % 10 = 0 THEN ToString(f \div 10)
    ELSE ToString(f \div 10) \o "." \o ToString(f % 10)

\* Int and Float are rendered with to_string; the callers map Err to
\* Default::default(), the empty string
get_token_string(tok) ==
    IF tok.t = "String" THEN tok.s
    ELSE IF tok.t = "Int" THEN ToString(tok.i)
    ELSE IF tok.t = "Float" THEN f32_to_string(tok.f)
    ELSE ""

\* mutant: the word is compared without regard to letter case
get_on_off_from_str_any_case(tok) ==
    LET s == get_token_string(tok)
    IN  IF s \in {"on", "On", "oN", "ON"} THEN [ok |-> TRUE, val |-> TRUE]
        ELSE IF s \in {"off", "Off", "OFF"} THEN [ok |-> TRUE, val |-> FALSE]
        ELSE [ok |-> FALSE, val |-> FALSE]

\* Ok(true) for "on", Ok(false) for "off", Err otherwise
get_on_off_from_str(tok) ==
    LET s == get_token_string(tok)
    IN  IF s = "on" THEN [ok |-> TRUE, val |-> TRUE]
        ELSE IF s = "off" THEN [ok |-> TRUE, val |-> FALSE]
        ELSE [ok |-> FALSE, val |-> FALSE]

\* the callers' `match .. { Ok(v) => v, Err(e) => Default::default() }`
on_off_or_default(tok) ==
    LET r == get_on_off_from_str(tok) IN IF r.ok THEN r.val ELSE FALSE

\* str::parse::<bool>(): only "true" and "false" parse; callers map Err to false
parse_bool_or_false(s) == s = "true"

(***************************************************************************)
(* model.rs: directive parsers                                             *)
(***************************************************************************)
parse_vertex(in) ==
    LET k == token_match(in, {"Vertex"}) IN IF ~k.ok THEN Err ELSE
    LET x == token_match(k.rest, Num) IN IF ~x.ok THEN Err ELSE
    LET y == token_match(x.rest, Num) IN IF ~y.ok THEN Err ELSE
    LET z == token_match(y.rest, Num) IN IF ~z.ok THEN Err ELSE
    LET w == opt_token(z.rest, Num)
    IN  Ok(w.rest, [x |-> get_token_float(x.out),
                    y |-> get_token_float(y.out),
                    z |-> get_token_float(z.out),
                    w |-> IF w.out = None THEN None
                          ELSE Some(get_token_float(w.out[1]))])

parse_vertex_normal(in) ==
    LET k == token_match(in, {"VertexNormal"}) IN IF ~k.ok THEN Err ELSE
    LET x == token_match(k.rest, Num) IN IF ~x.ok THEN Err ELSE
    LET y == token_match(x.rest, Num) IN IF ~y.ok THEN Err ELSE
    LET z == token_match(y.rest, Num) IN IF ~z.ok THEN Err ELSE
    Ok(z.rest, [x |-> get_token_float(x.out),
                y |-> get_token_float(y.out),
                z |-> get_token_float(z.out)])

parse_vertex_texture(in) ==
    LET k == token_match(in, {"VertexTexture"}) IN IF ~k.ok THEN Err ELSE
    LET u == token_match(k.rest, Num) IN IF ~u.ok THEN Err ELSE
    LET v == opt_token(u.rest, Num)
        w == opt_token(v.rest, Num)
    IN  Ok(w.rest, [u |-> get_token_float(u.out),
                    v |-> IF v.out = None THEN None
                          ELSE Some(get_token_float(v.out[1])),
                    w |-> IF w.out = None THEN None
                          ELSE Some(get_token_float(w.out[1]))])

\* opt(preceded(Slash, opt(Int))): None, Some(None) or Some(Some(i)); the
\* closure flattens the two levels, so out is the Option<i32> it stores
slash_opt_int(in) ==
    LET s == token_match(in, {"Slash"})
    IN  IF ~s.ok THEN Ok(in, None)
        ELSE LET i == opt_token(s.rest, {"Int"})
             IN  Ok(i.rest, IF i.out = None THEN None
                            ELSE Some(get_token_int(i.out[1])))

\* tuple((Int, opt(/ opt(Int)), opt(/ opt(Int)))) mapped to a FaceElement
face_element(in) ==
    LET v == token_match(in, {"Int"}) IN IF ~v.ok THEN Err ELSE
    LET t == slash_opt_int(v.rest)
        n == slash_opt_int(t.rest)
    IN  Ok(n.rest, [vertex_index |-> get_token_int(v.out),
                    texture_index |-> t.out,
                    normal_index |-> n.out])

\* the loop of fold_many1 after its first element: stop at the first Error
RECURSIVE face_elements(_, _)
face_elements(in, acc) ==
    LET r == face_element(in)
    IN  IF ~r.ok THEN Ok(in, acc)
        ELSE face_elements(r.rest, Append(acc, r.out))

parse_face(in) ==
    LET k == token_match(in, {"Face"}) IN IF ~k.ok THEN Err ELSE
    LET first == face_element(k.rest) IN IF ~first.ok THEN Err ELSE
    LET all == face_elements(first.rest, <<first.out>>)
    IN  Ok(all.rest, [elements |-> all.out, smoothing_group |-> 0])

\* tuple((Int, opt(Slash), opt(Int))) mapped to a LineElement
line_element(in) ==
    LET v == token_match(in, {"Int"}) IN IF ~v.ok THEN Err ELSE
    LET s == opt_token(v.rest, {"Slash"})
        t == opt_token(s.rest, {"Int"})
    IN  Ok(t.rest, [vertex_index |-> get_token_int(v.out),
                    texture_index |-> IF t.out = None THEN None
                                      ELSE Some(get_token_int(t.out[1]))])

RECURSIVE line_elements(_, _)
line_elements(in, acc) ==
    LET r == line_element(in)
    IN  IF ~r.ok THEN Ok(in, acc)
        ELSE line_elements(r.rest, Append(acc, r.out))

parse_line(in) ==
    LET k == token_match(in, {"Line"}) IN IF ~k.ok THEN Err ELSE
    LET first == line_element(k.rest) IN IF ~first.ok THEN Err ELSE
    LET all == line_elements(first.rest, <<first.out>>)
    IN  Ok(all.rest, [elements |-> all.out])

RECURSIVE point_elements(_, _)
point_elements(in, acc) ==
    LET r == token_match(in, {"Int"})
    IN  IF ~r.ok THEN Ok(in, acc)
        ELSE point_elements(r.rest, Append(acc, get_token_int(r.out)))

parse_point(in) ==
    LET k == token_match(in, {"Point"}) IN IF ~k.ok THEN Err ELSE
    LET first == token_match(k.rest, {"Int"}) IN IF ~first.ok THEN Err ELSE
    LET all == point_elements(first.rest, <<get_token_int(first.out)>>)
    IN  Ok(all.rest, [elements |-> all.out])

\* many1(map(token_match!(Token::String(_)), get_token_string))
RECURSIVE strings0(_, _)
strings0(in, acc) ==
    LET r == token_match(in, {"String"})
    IN  IF ~r.ok THEN Ok(in, acc)
        ELSE strings0(r.rest, Append(acc, get_token_string(r.out)))

strings1(in) ==
    LET first == token_match(in, {"String"})
    IN  IF ~first.ok THEN Err
        ELSE strings0(first.rest, <<get_token_string(first.out)>>)

\* preceded(keyword, one argument token of the given variants)
keyword_arg(in, kw, kinds) ==
    LET k == token_match(in, {kw}) IN IF ~k.ok THEN Err
    ELSE token_match(k.rest, kinds)

parse_group(in) ==
    LET k == token_match(in, {"Group"}) IN IF ~k.ok THEN Err ELSE
    LET n == strings1(k.rest) IN IF ~n.ok THEN Err
    ELSE Ok(n.rest, [e |-> "Group", names |-> n.out])

parse_mat_lib(in) ==
    LET k == token_match(in, {"MaterialLib"}) IN IF ~k.ok THEN Err ELSE
    LET n == strings1(k.rest) IN IF ~n.ok THEN Err
    ELSE Ok(n.rest, [e |-> "MaterialLib", libs |-> n.out])

parse_material(in) ==
    LET r == keyword_arg(in, "UseMaterial", {"String"})
    IN  IF ~r.ok THEN Err
        ELSE Ok(r.rest, [e |-> "Material", name |-> get_token_string(r.out)])

parse_obj_name(in) ==
    LET r == keyword_arg(in, "Object", {"String", "Int"})
    IN  IF ~r.ok THEN Err
        ELSE Ok(r.rest, [e |-> "ObjName", name |-> get_token_string(r.out)])

\* alt((Int, String mapped through get_on_off_from_str to TInt(0) / TInt(1)))
\* mutant: a word that is neither on nor off is an error of the parser
parse_smoothing_strict(in) ==
    LET r == keyword_arg(in, "Smoothing", {"Int", "String"})
    IN  IF ~r.ok THEN Err
        ELSE IF r.out.t = "String" /\ ~get_on_off_from_str(r.out).ok THEN Err
        ELSE LET tok == IF r.out.t = "Int" THEN r.out
                        ELSE IF ~on_off_or_default(r.out) THEN TInt(0)
                        ELSE TInt(1)
             IN  Ok(r.rest, [e |-> "Smoothing", id |-> get_token_int(tok)])

parse_smoothing(in) ==
    LET r == keyword_arg(in, "Smoothing", {"Int", "String"})
    IN  IF ~r.ok THEN Err
        ELSE LET tok == IF r.out.t = "Int" THEN r.out
                        ELSE IF ~on_off_or_default(r.out) THEN TInt(0)
                        ELSE TInt(1)
             IN  Ok(r.rest, [e |-> "Smoothing", id |-> get_token_int(tok)])

parse_bevel(in) ==
    LET r == keyword_arg(in, "Bevel", {"String"})
    IN  IF ~r.ok THEN Err
        ELSE Ok(r.rest, [e |-> "Bevel",
                         flag |-> parse_bool_or_false(get_token_string(r.out))])

parse_c_interp(in) ==
    LET r == keyword_arg(in, "CInterp", {"String"})
    IN  IF ~r.ok THEN Err
        ELSE Ok(r.rest, [e |-> "CInterp",
                         flag |-> parse_bool_or_false(get_token_string(r.out))])

parse_d_interp(in) ==
    LET r == keyword_arg(in, "DInterp", {"String"})
    IN  IF ~r.ok THEN Err
        ELSE Ok(r.rest, [e |-> "DInterp",
                         flag |-> parse_bool_or_false(get_token_string(r.out))])

parse_lod(in) ==
    LET r == keyword_arg(in, "Lod", {"Int"})
    IN  IF ~r.ok THEN Err
        ELSE Ok(r.rest, [e |-> "Lod", level |-> get_token_int(r.out)])

parse_shadow_obj(in) ==
    LET r == keyword_arg(in, "ShadowObj", {"String"})
    IN  IF ~r.ok THEN Err
        ELSE Ok(r.rest, [e |-> "ShadowObj", name |-> get_token_string(r.out)])

parse_trace_obj(in) ==
    LET r == keyword_arg(in, "TraceObj", {"String"})
    IN  IF ~r.ok THEN Err
        ELSE Ok(r.rest, [e |-> "TraceObj", name |-> get_token_string(r.out)])

parse_texture_lib(in) ==
    LET k == token_match(in, {"TextureMapLib"}) IN IF ~k.ok THEN Err ELSE
    LET n == strings1(k.rest) IN IF ~n.ok THEN Err
    ELSE Ok(n.rest, [e |-> "TextureLib", libs |-> n.out])

parse_texture_map(in) ==
    LET r == keyword_arg(in, "UseTextureMap", {"String"})
    IN  IF ~r.ok THEN Err
        ELSE Ok(r.rest, [e |-> "TextureMap", name |-> get_token_string(r.out)])

\* map(p, ModelElement::X) for the six parsers that return a bare record
wrap(r, kind, field) ==
    IF ~r.ok THEN Err
    ELSE Ok(r.rest, [e |-> kind] @@ (field :> r.out))

\* nom alt((..)): the result of the first alternative that does not fail
first_ok(alts) ==
    LET hits == {i \in DOMAIN alts : alts[i].ok}
    IN  IF hits = {} THEN Err
        ELSE alts[CHOOSE i \in hits : \A j \in hits : i <= j]

\* the alt((..)) of model::parse
parse_element(in) ==
    first_ok(<<wrap(parse_vertex(in), "Vertex", "vertex"),
               wrap(parse_vertex_normal(in), "Normal", "normal"),
               wrap(parse_vertex_texture(in), "Texture", "texture"),
               wrap(parse_face(in), "Face", "face"),
               wrap(parse_line(in), "Line", "line"),
               wrap(parse_point(in), "Point", "point"),
               parse_mat_lib(in),
               parse_material(in),
               parse_obj_name(in),
               parse_smoothing(in),
               parse_bevel(in),
               parse_c_interp(in),
               parse_d_interp(in),
               parse_lod(in),
               parse_shadow_obj(in),
               parse_trace_obj(in),
               parse_texture_lib(in),
               parse_texture_map(in),
               parse_group(in)>>)

(***************************************************************************)
(* model.rs: Model and the fold closure of model::parse                    *)
(***************************************************************************)
EmptyMap == <<>>

\* #[derive(Default)] for Group
GroupDefault ==
    [material_name |-> "", bevel |-> FALSE, c_interp |-> FALSE,
     d_interp |-> FALSE, lod |-> 0, texture_map |-> None]

\* mutant: what #[derive(Default)] would give, no "default" group
ModelDefault_derived ==
    [vertices |-> <<>>, normals |-> <<>>, textures |-> <<>>,
     faces |-> EmptyMap, lines |-> EmptyMap, points |-> EmptyMap,
     groups |-> EmptyMap,
     material_libs |-> <<>>, texture_libs |-> <<>>,
     shadow_obj |-> None, trace_obj |-> None,
     current_group |-> <<>>,
     current_smoothing_group |-> 0]

\* impl Default for Model
ModelDefault ==
    [vertices |-> <<>>, normals |-> <<>>, textures |-> <<>>,
     faces |-> EmptyMap, lines |-> EmptyMap, points |-> EmptyMap,
     groups |-> ("default" :> GroupDefault),
     material_libs |-> <<>>, texture_libs |-> <<>>,
     shadow_obj |-> None, trace_obj |-> None,
     current_group |-> <<"default">>,
     current_smoothing_group |-> 0]

\* for g in gs { map.entry(g).or_insert_with(Vec::new).push(rec.clone()) }
RECURSIVE file_under(_, _, _)
file_under(map, gs, rec) ==
    IF gs = <<>> THEN map
    ELSE LET g == Head(gs)
             cur == IF g \in DOMAIN map THEN map[g] ELSE <<>>
             nxt == [x \in DOMAIN map \cup {g} |->
                        IF x = g THEN Append(cur, rec) ELSE map[x]]
         IN  file_under(nxt, Tail(gs), rec)

\* mutant: a vertex also closes the active groups
on_Vertex_closes_group(m, x) ==
    [m EXCEPT !.vertices = Append(@, x), !.current_group = <<"default">>]

on_Vertex(m, x) == [m EXCEPT !.vertices = Append(@, x)]
on_Normal(m, n) == [m EXCEPT !.normals = Append(@, n)]
on_Texture(m, t) == [m EXCEPT !.textures = Append(@, t)]

\* mutant: the face keeps the smoothing group parse_face gave it
on_Face_unstamped(m, f) ==
    [m EXCEPT !.faces = file_under(@, m.current_group, f)]

on_Face(m, f) ==
    LET stamped == [f EXCEPT !.smoothing_group = m.current_smoothing_group]
    IN  [m EXCEPT !.faces = file_under(@, m.current_group, stamped)]

on_Line(m, l) == [m EXCEPT !.lines = file_under(@, m.current_group, l)]
on_Point(m, p) == [m EXCEPT !.points = file_under(@, m.current_group, p)]

\* mutant: the names become active and are not entered in the groups map
on_Group_unregistered(m, names) == [m EXCEPT !.current_group = names]

\* current_group.clear(); for g in names { groups.insert(g, default); push(g) }
on_Group(m, names) ==
    LET ns == {names[i] : i \in DOMAIN names}
    IN  [m EXCEPT !.groups = [x \in DOMAIN @ \cup ns |->
                                 IF x \in ns THEN GroupDefault ELSE @[x]],
                  !.current_group = names]

\* for g in current_group { groups.entry(g).or_default().field = val }
set_on_groups(groups, gs, field, val) ==
    LET ns == {gs[i] : i \in DOMAIN gs}
    IN  [x \in DOMAIN groups \cup ns |->
            IF x \in ns
            THEN [(IF x \in DOMAIN groups THEN groups[x] ELSE GroupDefault)
                      EXCEPT ![field] = val]
            ELSE groups[x]]

\* mutant: only the first active group takes the material
on_Material_first(m, name) ==
    [m EXCEPT !.groups =
        set_on_groups(@, <<Head(m.current_group)>>, "material_name", name)]

on_Material(m, name) ==
    [m EXCEPT !.groups = set_on_groups(@, m.current_group, "material_name", name)]

on_TextureMap(m, name) ==
    [m EXCEPT !.groups = set_on_groups(@, m.current_group, "texture_map", Some(name))]

on_Smoothing(m, id) == [m EXCEPT !.current_smoothing_group = id]
on_MaterialLib(m, libs) == [m EXCEPT !.material_libs = @ \o libs]
on_TextureLib(m, libs) == [m EXCEPT !.texture_libs = @ \o libs]

\* the arms `=> {}`: ObjName, Bevel, CInterp, DInterp, Lod, ShadowObj, TraceObj
on_Ignored(m, item) == m

\* |mut model: Model, item: ModelElement| { match item { .. } model }
fold_closure(m, item) ==
    CASE item.e = "Vertex" -> on_Vertex(m, item.vertex)
      [] item.e = "Normal" -> on_Normal(m, item.normal)
      [] item.e = "Texture" -> on_Texture(m, item.texture)
      [] item.e = "Face" -> on_Face(m, item.face)
      [] item.e = "Line" -> on_Line(m, item.line)
      [] item.e = "Point" -> on_Point(m, item.point)
      [] item.e = "Group" -> on_Group(m, item.names)
      [] item.e = "MaterialLib" -> on_MaterialLib(m, item.libs)
      [] item.e = "Material" -> on_Material(m, item.name)
      [] item.e = "Smoothing" -> on_Smoothing(m, item.id)
      [] item.e = "TextureLib" -> on_TextureLib(m, item.libs)
      [] item.e = "TextureMap" -> on_TextureMap(m, item.name)
      [] OTHER -> on_Ignored(m, item)

(***************************************************************************)
(* Geometry inputs: token sequences of whole directives                    *)
(***************************************************************************)
RECURSIVE Flatten(_)
Flatten(ss) == IF ss = <<>> THEN <<>> ELSE Head(ss) \o Flatten(Tail(ss))

SeqsUpTo(S, n) == UNION {[1..k -> S] : k \in 0..n}

D_v == <<Kw("Vertex"), TInt(1), TInt(2), TFloat(35)>>
D_vn == <<Kw("VertexNormal"), TInt(0), TInt(0), TInt(1)>>
D_vt == <<Kw("VertexTexture"), TFloat(5), TFloat(5)>>
D_f == <<Kw("Face"), TInt(1), TInt(2), TInt(3)>>
D_l == <<Kw("Line"), TInt(1), TSlash, TInt(2)>>
D_p == <<Kw("Point"), TInt(4)>>
D_usemtl == <<Kw("UseMaterial"), TStr("m1")>>
D_s2 == <<Kw("Smoothing"), TInt(2)>>
D_s_on == <<Kw("Smoothing"), TStr("on")>>
D_g_a == <<Kw("Group"), TStr("a")>>
D_g_ba == <<Kw("Group"), TStr("b"), TStr("a")>>
D_g_aa == <<Kw("Group"), TStr("a"), TStr("a")>>

\* every directive kind of the reducer, and four sequences no directive matches
ObjDirectives ==
    {D_v, D_vn, D_vt, D_f, D_l, D_p, D_usemtl, D_s2, D_g_a, D_g_ba,
     <<Kw("Face"), TInt(1), TSlash, TInt(1), TSlash, TInt(1)>>,
     <<Kw("MaterialLib"), TStr("lib.mtl")>>,
     <<Kw("Object"), TInt(1)>>,
     <<Kw("Smoothing"), TStr("off")>>,
     <<Kw("Bevel"), TStr("on")>>,
     <<Kw("CInterp"), TStr("on")>>,
     <<Kw("DInterp"), TStr("off")>>,
     <<Kw("Lod"), TInt(1)>>,
     <<Kw("ShadowObj"), TStr("sh.obj")>>,
     <<Kw("TraceObj"), TStr("tr.obj")>>,
     <<Kw("TextureMapLib"), TStr("lib.map")>>,
     <<Kw("UseTextureMap"), TStr("tex")>>,
     <<Kw("Face")>>,
     <<Kw("Vertex"), TInt(1), TInt(2)>>,
     <<Kw("VertexParam"), TInt(1)>>,
     <<Kw("Lod"), TStr("x")>>}

\* the directives that file records, and those that choose where
FilingDirectives ==
    {D_f, D_l, D_p, D_s2, D_s_on, D_g_a, D_g_ba, D_g_aa}

\* vertex data among the usemtl, group and face directives
OrderDirectives ==
    {D_v, D_vn, D_vt, D_f, D_usemtl, D_g_a, D_g_ba}

(***************************************************************************)
(* model::parse as a state machine: one action per fold_many0 iteration    *)
(***************************************************************************)
IdleObj == model = ModelDefault /\ elems = <<>> /\ obj_result = "idle"
IdleMtl == elements = <<>> /\ applied = 0 /\ res = <<>> /\ mtl_result = "idle"
IdleIdx == text = <<>> /\ parsed = [kind |-> "none"]

InitParse(directives, n) ==
    /\ \E ds \in SeqsUpTo(directives, n) : tokens = Flatten(ds)
    /\ input = tokens
    /\ model = ModelDefault
    /\ elems = <<>>
    /\ obj_result = "running"
    /\ IdleMtl
    /\ IdleIdx

InitObj == InitParse(ObjDirectives, MaxDirectives)
InitFiling == InitParse(FilingDirectives, MaxFiling)
InitOrder == InitParse(OrderDirectives, MaxOrder)

\* the fold closure applied to the ModelElement r.out that alt((..)) produced
Reduce(kind, r) ==
    /\ r.ok
    /\ r.out.e = kind
    /\ input' = r.rest
    /\ model' = fold_closure(model, r.out)
    /\ elems' = Append(elems, r.out)

\* one action per ModelElement variant: a fold_many0 iteration whose alt((..))
\* yields that variant
ReduceVertex ==
    /\ obj_result = "running"
    /\ Reduce("Vertex", parse_element(input))
    /\ UNCHANGED <<tokens, obj_result, mtlVars, idxVars>>

ReduceNormal ==
    /\ obj_result = "running"
    /\ Reduce("Normal", parse_element(input))
    /\ UNCHANGED <<tokens, obj_result, mtlVars, idxVars>>

ReduceTexture ==
    /\ obj_result = "running"
    /\ Reduce("Texture", parse_element(input))
    /\ UNCHANGED <<tokens, obj_result, mtlVars, idxVars>>

ReduceFace ==
    /\ obj_result = "running"
    /\ Reduce("Face", parse_element(input))
    /\ UNCHANGED <<tokens, obj_result, mtlVars, idxVars>>

ReduceLine ==
    /\ obj_result = "running"
    /\ Reduce("Line", parse_element(input))
    /\ UNCHANGED <<tokens, obj_result, mtlVars, idxVars>>

ReducePoint ==
    /\ obj_result = "running"
    /\ Reduce("Point", parse_element(input))
    /\ UNCHANGED <<tokens, obj_result, mtlVars, idxVars>>

ReduceGroup ==
    /\ obj_result = "running"
    /\ Reduce("Group", parse_element(input))
    /\ UNCHANGED <<tokens, obj_result, mtlVars, idxVars>>

ReduceMaterialLib ==
    /\ obj_result = "running"
    /\ Reduce("MaterialLib", parse_element(input))
    /\ UNCHANGED <<tokens, obj_result, mtlVars, idxVars>>

ReduceMaterial ==
    /\ obj_result = "running"
    /\ Reduce("Material", parse_element(input))
    /\ UNCHANGED <<tokens, obj_result, mtlVars, idxVars>>

ReduceObjName ==
    /\ obj_result = "running"
    /\ Reduce("ObjName", parse_element(input))
    /\ UNCHANGED <<tokens, obj_result, mtlVars, idxVars>>

ReduceSmoothing ==
    /\ obj_result = "running"
    /\ Reduce("Smoothing", parse_element(input))
    /\ UNCHANGED <<tokens, obj_result, mtlVars, idxVars>>

ReduceBevel ==
    /\ obj_result = "running"
    /\ Reduce("Bevel", parse_element(input))
    /\ UNCHANGED <<tokens, obj_result, mtlVars, idxVars>>

ReduceCInterp ==
    /\ obj_result = "running"
    /\ Reduce("CInterp", parse_element(input))
    /\ UNCHANGED <<tokens, obj_result, mtlVars, idxVars>>

ReduceDInterp ==
    /\ obj_result = "running"
    /\ Reduce("DInterp", parse_element(input))
    /\ UNCHANGED <<tokens, obj_result, mtlVars, idxVars>>

ReduceLod ==
    /\ obj_result = "running"
    /\ Reduce("Lod", parse_element(input))
    /\ UNCHANGED <<tokens, obj_result, mtlVars, idxVars>>

ReduceShadowObj ==
    /\ obj_result = "running"
    /\ Reduce("ShadowObj", parse_element(input))
    /\ UNCHANGED <<tokens, obj_result, mtlVars, idxVars>>

ReduceTraceObj ==
    /\ obj_result = "running"
    /\ Reduce("TraceObj", parse_element(input))
    /\ UNCHANGED <<tokens, obj_result, mtlVars, idxVars>>

ReduceTextureLib ==
    /\ obj_result = "running"
    /\ Reduce("TextureLib", parse_element(input))
    /\ UNCHANGED <<tokens, obj_result, mtlVars, idxVars>>

ReduceTextureMap ==
    /\ obj_result = "running"
    /\ Reduce("TextureMap", parse_element(input))
    /\ UNCHANGED <<tokens, obj_result, mtlVars, idxVars>>

\* fold_many0 ends at the first Err::Error of alt((..)) with Ok((input, acc));
\* model::parse drops the remaining input: `Ok((_, acc)) => Ok(acc)`.  Its
\* `Err(e)` arm needs an Err::Failure, which token_match! never returns.
ObjReturn ==
    /\ obj_result = "running"
    /\ ~parse_element(input).ok
    /\ obj_result' = "Ok"
    /\ UNCHANGED <<tokens, input, model, elems, mtlVars, idxVars>>

\* model::parse as a function of the whole token slice
RECURSIVE run_parse(_, _)
run_parse(in, m) ==
    IF parse_element(in).ok
    THEN run_parse(parse_element(in).rest, fold_closure(m, parse_element(in).out))
    ELSE m

NextFiling ==
    \/ ReduceFace \/ ReduceLine \/ ReducePoint
    \/ ReduceGroup \/ ReduceSmoothing
    \/ ObjReturn

NextOrder ==
    \/ ReduceVertex \/ ReduceNormal \/ ReduceTexture
    \/ ReduceFace \/ ReduceGroup \/ ReduceMaterial
    \/ ObjReturn

NextObj ==
    \/ ReduceVertex \/ ReduceNormal \/ ReduceTexture
    \/ ReduceFace \/ ReduceLine \/ ReducePoint
    \/ ReduceGroup \/ ReduceMaterialLib \/ ReduceMaterial
    \/ ReduceObjName \/ ReduceSmoothing
    \/ ReduceBevel \/ ReduceCInterp \/ ReduceDInterp \/ ReduceLod
    \/ ReduceShadowObj \/ ReduceTraceObj \/ ReduceTextureLib
    \/ ReduceTextureMap
    \/ ObjReturn

SpecObj == InitObj /\ [][NextObj]_vars
SpecFiling == InitFiling /\ [][NextFiling]_vars
SpecOrder == InitOrder /\ [][NextOrder]_vars

(***************************************************************************)
(* Properties of the geometry reduction                                    *)
(***************************************************************************)
Range(f) == {f[i] : i \in DOMAIN f}
Count(x, f) == Cardinality({i \in DOMAIN f : f[i] = x})
MaxOf(S) == CHOOSE x \in S : \A y \in S : y <= x
At(map, g) == IF g \in DOMAIN map THEN map[g] ELSE <<>>
Contents(recs) == [i \in DOMAIN recs |-> recs[i].elements]

\* the group names of the last group directive among the first n - 1 elements
ActiveBefore(n) ==
    LET gs == {i \in 1..(n - 1) : elems[i].e = "Group"}
    IN  IF gs = {} THEN <<"default">> ELSE elems[MaxOf(gs)].names

\* the id of the last smoothing directive among the first n - 1 elements
SmoothingBefore(n) ==
    LET ss == {i \in 1..(n - 1) : elems[i].e = "Smoothing"}
    IN  IF ss = {} THEN 0 ELSE elems[MaxOf(ss)].id

\* C1: when load_obj returns Ok, no token sequence was left unmatched: the
\* whole token stream was reduced
C1_OkOnlyWhenAllReduced ==
    obj_result = "Ok" => input = <<>>

C2_Filed(kind) == SelectSeq(elems, LAMBDA e : e.e = kind)

C2_UnderDefaultOnly(map, recs) ==
    /\ DOMAIN map \subseteq {"default"}
    /\ Contents(At(map, "default")) = recs

\* C2: while no group directive has been reduced, groups has the key "default"
\* and every face, line and point reduced so far is filed under "default" and
\* under no other key
C2_DefaultGroup ==
    (\A i \in DOMAIN elems : elems[i].e # "Group") =>
        /\ "default" \in DOMAIN model.groups
        /\ C2_UnderDefaultOnly(model.faces,
               [i \in DOMAIN C2_Filed("Face") |-> C2_Filed("Face")[i].face.elements])
        /\ C2_UnderDefaultOnly(model.lines,
               [i \in DOMAIN C2_Filed("Line") |-> C2_Filed("Line")[i].line.elements])
        /\ C2_UnderDefaultOnly(model.points,
               [i \in DOMAIN C2_Filed("Point") |-> C2_Filed("Point")[i].point.elements])

C2_Witness ==
    /\ obj_result = "Ok"
    /\ \A i \in DOMAIN elems : elems[i].e # "Group"
    /\ {elems[i].e : i \in DOMAIN elems} = {"Face", "Line", "Point"}
    /\ Len(model.faces["default"]) >= 1

C3_Appended(old, new, active, content) ==
    /\ DOMAIN new = DOMAIN old \cup active
    /\ \A g \in active :
          /\ Len(new[g]) = Len(At(old, g)) + 1
          /\ SubSeq(new[g], 1, Len(At(old, g))) = At(old, g)
          /\ new[g][Len(new[g])].elements = content
    /\ \A g \in DOMAIN new \ active : new[g] = At(old, g)

\* C3: a step that reduces a face, line or point appends exactly one record
\* with the directive's elements to the list of every active group, leaves
\* every other list as it was and keeps the records already filed
C3_OneCopyPerActiveGroup ==
    [][Len(elems') = Len(elems) + 1 =>
         LET item == elems'[Len(elems')]
             active == Range(model.current_group)
         IN  /\ item.e = "Face" =>
                  /\ C3_Appended(model.faces, model'.faces, active, item.face.elements)
                  /\ model'.lines = model.lines /\ model'.points = model.points
             /\ item.e = "Line" =>
                  /\ C3_Appended(model.lines, model'.lines, active, item.line.elements)
                  /\ model'.faces = model.faces /\ model'.points = model.points
             /\ item.e = "Point" =>
                  /\ C3_Appended(model.points, model'.points, active, item.point.elements)
                  /\ model'.faces = model.faces /\ model'.lines = model.lines]_vars

\* the smoothing ids that the first n elements put on the faces of group g:
\* each face directive files one face per occurrence of g in the active list
RECURSIVE C4_Ids(_, _)
C4_Ids(n, g) ==
    IF n = 0 THEN <<>>
    ELSE IF elems[n].e = "Face"
         THEN C4_Ids(n - 1, g) \o
              [k \in 1..Count(g, ActiveBefore(n)) |-> SmoothingBefore(n)]
         ELSE C4_Ids(n - 1, g)

\* C4: every face filed carries the id of the last smoothing directive
\* reduced before it, 0 when there is none; since this holds in every state,
\* a later smoothing directive changes no face already filed
C4_SmoothingOfMostRecentDirective ==
    \A g \in DOMAIN model.faces \cup DOMAIN model.groups :
        [i \in DOMAIN At(model.faces, g) |-> model.faces[g][i].smoothing_group]
            = C4_Ids(Len(elems), g)

C4_Witness ==
    /\ obj_result = "Ok"
    /\ "default" \in DOMAIN model.faces
    /\ Len(model.faces["default"]) = 2
    /\ model.faces["default"][1].smoothing_group = 2
    /\ model.faces["default"][2].smoothing_group = 1
    /\ model.current_smoothing_group = 1

VertexData == {"Vertex", "VertexNormal", "VertexTexture"}

\* the tokens of the v / vn / vt directives (keep = TRUE) or of all the other
\* directives (keep = FALSE), in their order in toks
RECURSIVE C8_Part(_, _, _)
C8_Part(toks, inData, keep) ==
    IF toks = <<>> THEN <<>>
    ELSE LET h == Head(toks)
             data == IF h.t \in VertexData THEN TRUE
                     ELSE IF h.t \in Num THEN inData
                     ELSE FALSE
         IN  (IF data = keep THEN <<h>> ELSE <<>>)
                 \o C8_Part(Tail(toks), data, keep)

\* C8: the faces and the group settings of the returned model are those of
\* the input without its v / vn / vt directives, and the vertex, normal and
\* texture sequences are those of the v / vn / vt directives alone: where the
\* vertex data stands among the other directives makes no difference
C8_VertexDataPositionIrrelevant ==
    obj_result = "Ok" =>
        /\ model.faces = run_parse(C8_Part(tokens, FALSE, FALSE), ModelDefault).faces
        /\ model.groups = run_parse(C8_Part(tokens, FALSE, FALSE), ModelDefault).groups
        /\ model.vertices = run_parse(C8_Part(tokens, FALSE, TRUE), ModelDefault).vertices
        /\ model.normals = run_parse(C8_Part(tokens, FALSE, TRUE), ModelDefault).normals
        /\ model.textures = run_parse(C8_Part(tokens, FALSE, TRUE), ModelDefault).textures

C8_Witness ==
    /\ obj_result = "Ok"
    /\ Len(elems) = 4
    /\ elems[1].e = "Group" /\ elems[2].e = "Vertex"
    /\ elems[3].e = "Material" /\ elems[4].e = "Face"
    /\ "a" \in DOMAIN model.faces
    /\ model.groups["a"].material_name = "m1"

(***************************************************************************)
(* parse_face and parse_line on the tokens of one written directive        *)
(***************************************************************************)
Idx == {1, -2}
OptIdx == {None} \cup {Some(i) : i \in Idx}

\* an index group as written: v, v/, v/t, v//, v/t/, v//n or v/t/n
IndexGroups ==
    {g \in [v : Idx, slashes : 0..2, t : OptIdx, n : OptIdx] :
        /\ g.t # None => g.slashes >= 1
        /\ g.n # None => g.slashes = 2}

\* tokenizer::parse_obj on one index group: parse_digit gives Int, tag("/")
\* gives Slash, the white space that ends the group gives no token
group_tokens(g) ==
    <<TInt(g.v)>>
        \o (IF g.slashes >= 1 THEN <<TSlash>> ELSE <<>>)
        \o (IF g.t # None THEN <<TInt(g.t[1])>> ELSE <<>>)
        \o (IF g.slashes = 2 THEN <<TSlash>> ELSE <<>>)
        \o (IF g.n # None THEN <<TInt(g.n[1])>> ELSE <<>>)

index_tokens(groups) == Flatten([i \in DOMAIN groups |-> group_tokens(groups[i])])

InitIndex ==
    /\ \E k \in 1..MaxIndexGroups : text \in [1..k -> IndexGroups]
    /\ parsed = [kind |-> "none"]
    /\ tokens = <<>> /\ input = <<>>
    /\ IdleObj
    /\ IdleMtl

\* test/obj.rs: model::parse_face(&tokens) on "f <groups>"
ParseFace ==
    /\ parsed.kind = "none"
    /\ parsed' = [kind |-> "f",
                  r |-> parse_face(<<Kw("Face")>> \o index_tokens(text))]
    /\ UNCHANGED <<tokens, input, objVars, mtlVars, text>>

\* test/obj.rs: model::parse_line(&tokens) on "l <groups>"; a line group has
\* at most one slash
ParseLine ==
    /\ parsed.kind = "none"
    /\ \A i \in DOMAIN text : text[i].slashes <= 1
    /\ parsed' = [kind |-> "l",
                  r |-> parse_line(<<Kw("Line")>> \o index_tokens(text))]
    /\ UNCHANGED <<tokens, input, objVars, mtlVars, text>>

NextIndex == ParseFace \/ ParseLine

SpecIndex == InitIndex /\ [][NextIndex]_vars

\* C9: parse_face consumes the whole directive and yields one element per
\* index group, in order, with the indices as written and None for every
\* slot left empty
C9_FaceElementsAsWritten ==
    parsed.kind = "f" =>
        /\ parsed.r.ok
        /\ parsed.r.rest = <<>>
        /\ parsed.r.out.elements =
               [i \in DOMAIN text |-> [vertex_index |-> text[i].v,
                                       texture_index |-> text[i].t,
                                       normal_index |-> text[i].n]]

\* C10: parse_line consumes the whole directive and yields one element per
\* index group, with a texture index only where one is written after a slash
C10_LineElementPerVertex ==
    parsed.kind = "l" =>
        /\ parsed.r.ok
        /\ parsed.r.rest = <<>>
        /\ parsed.r.out.elements =
               [i \in DOMAIN text |-> [vertex_index |-> text[i].v,
                                       texture_index |-> text[i].t]]

(***************************************************************************)
(* material.rs: colors, map options and map records                        *)
(***************************************************************************)
\* lib.rs get_opt_token_float_opt on the Option a nom opt(..) produced
get_opt_token_float_opt(o) ==
    IF o = None THEN None ELSE Some(get_token_float(o[1]))

\* nom tuple of three numbers
three_floats(in) ==
    LET a == token_match(in, Num) IN IF ~a.ok THEN Err ELSE
    LET b == token_match(a.rest, Num) IN IF ~b.ok THEN Err ELSE
    LET c == token_match(b.rest, Num) IN IF ~c.ok THEN Err
    ELSE Ok(c.rest, <<get_token_float(a.out), get_token_float(b.out),
                      get_token_float(c.out)>>)

\* nom tuple (number, opt(number), opt(number))
float_opt_opt(in) ==
    LET x == token_match(in, Num) IN IF ~x.ok THEN Err ELSE
    LET y == opt_token(x.rest, Num)
        z == opt_token(y.rest, Num)
    IN  Ok(z.rest, <<x.out, y.out, z.out>>)

color_spectral(in) ==
    LET k == token_match(in, {"Spectral"}) IN IF ~k.ok THEN Err ELSE
    LET file == token_match(k.rest, {"String"}) IN IF ~file.ok THEN Err ELSE
    LET factor == opt_token(file.rest, Num)
        given == get_opt_token_float_opt(factor.out)
    IN  Ok(factor.rest, [c |-> "Spectral",
                         file |-> get_token_string(file.out),
                         factor |-> IF given = None THEN 10 ELSE given[1]])

\* mutant: an omitted y or z is 0 instead of x
color_xyz_zero(in) ==
    LET k == token_match(in, {"Xyz"}) IN IF ~k.ok THEN Err ELSE
    LET t == float_opt_opt(k.rest) IN IF ~t.ok THEN Err
    ELSE Ok(t.rest, [c |-> "CieXyz", x |-> get_token_float(t.out[1]),
                     y |-> IF t.out[2] = None THEN 0 ELSE get_token_float(t.out[2][1]),
                     z |-> IF t.out[3] = None THEN 0 ELSE get_token_float(t.out[3][1])])

color_xyz(in) ==
    LET k == token_match(in, {"Xyz"}) IN IF ~k.ok THEN Err ELSE
    LET t == float_opt_opt(k.rest) IN IF ~t.ok THEN Err ELSE
    LET x == get_token_float(t.out[1])
    IN  Ok(t.rest, [c |-> "CieXyz", x |-> x,
                    y |-> IF t.out[2] = None THEN x ELSE get_token_float(t.out[2][1]),
                    z |-> IF t.out[3] = None THEN x ELSE get_token_float(t.out[3][1])])

color_rgb(in) ==
    LET t == three_floats(in) IN IF ~t.ok THEN Err
    ELSE Ok(t.rest, [c |-> "Rgb", r |-> t.out[1], g |-> t.out[2], b |-> t.out[3]])

parse_color_type(in) == first_ok(<<color_spectral(in), color_xyz(in), color_rgb(in)>>)

\* preceded(option keyword, one String) read as on / off
option_on_off(in, kw, kind) ==
    LET r == keyword_arg(in, kw, {"String"}) IN IF ~r.ok THEN Err
    ELSE Ok(r.rest, [o |-> kind, on |-> on_off_or_default(r.out)])

parse_option_blend(in) ==
    first_ok(<<option_on_off(in, "OptionBlendU", "BlendU"),
               option_on_off(in, "OptionBlendV", "BlendV")>>)

parse_option_bm(in) ==
    LET r == keyword_arg(in, "OptionBumpMultiplier", Num) IN IF ~r.ok THEN Err
    ELSE Ok(r.rest, [o |-> "BumpMultiplier", mult |-> get_token_float(r.out)])

parse_option_cc(in) == option_on_off(in, "OptionColorCorrect", "Cc")

parse_option_clamp(in) == option_on_off(in, "OptionClamp", "Clamp")

parse_option_texture_range(in) ==
    LET k == token_match(in, {"OptionRange"}) IN IF ~k.ok THEN Err ELSE
    LET base == token_match(k.rest, Num) IN IF ~base.ok THEN Err ELSE
    LET gain == token_match(base.rest, Num) IN IF ~gain.ok THEN Err
    ELSE Ok(gain.rest, [o |-> "TextureRange",
                        range |-> <<get_token_float(base.out),
                                    get_token_float(gain.out)>>])

\* -o, -s and -t: x, then optional y and z
option_xyz(in, kw, kind) ==
    LET k == token_match(in, {kw}) IN IF ~k.ok THEN Err ELSE
    LET t == float_opt_opt(k.rest) IN IF ~t.ok THEN Err
    ELSE Ok(t.rest, [o |-> kind,
                     xyz |-> <<get_token_float(t.out[1]),
                               get_opt_token_float_opt(t.out[2]),
                               get_opt_token_float_opt(t.out[3])>>])

parse_option_offset(in) == option_xyz(in, "OptionOffset", "Offset")

parse_option_scale(in) == option_xyz(in, "OptionScale", "Scale")

parse_option_turbulance(in) == option_xyz(in, "OptionTurbulence", "Turbulance")

parse_option_texture_resolution(in) ==
    LET r == keyword_arg(in, "OptionTextureResolution", {"Int"}) IN IF ~r.ok THEN Err
    ELSE Ok(r.rest, [o |-> "TextureRes", pixels |-> get_token_int(r.out)])

parse_option_imf_channel(in) ==
    LET r == keyword_arg(in, "OptionIMFChan", {"String"}) IN IF ~r.ok THEN Err
    ELSE Ok(r.rest, [o |-> "ImfChan", s |-> get_token_string(r.out)])

parse_option_reflection_type(in) ==
    LET r == keyword_arg(in, "ReflectionType", {"String"}) IN IF ~r.ok THEN Err
    ELSE Ok(r.rest, [o |-> "ReflectionType", s |-> get_token_string(r.out)])

option_file_name(in) ==
    LET r == token_match(in, {"String"}) IN IF ~r.ok THEN Err
    ELSE Ok(r.rest, [o |-> "FileName", s |-> get_token_string(r.out)])

\* the alt((..)) of parse_options; no alternative takes Token::OptionBoost
parse_option(in) ==
    first_ok(<<parse_option_blend(in), parse_option_bm(in), parse_option_cc(in),
               parse_option_clamp(in), parse_option_texture_range(in),
               parse_option_offset(in), parse_option_scale(in),
               parse_option_turbulance(in), parse_option_texture_resolution(in),
               parse_option_imf_channel(in), parse_option_reflection_type(in),
               option_file_name(in)>>)

RECURSIVE options0(_, _)
\* many1 after its first option: r is the alt((..)) at in; an Err ends the list
options_next(r, in, acc) ==
    IF ~r.ok THEN Ok(in, acc) ELSE options0(r.rest, Append(acc, r.out))

options0(in, acc) == options_next(parse_option(in), in, acc)

\* many1 on the result of its first alt((..))
options1(first) ==
    IF ~first.ok THEN Err ELSE options0(first.rest, <<first.out>>)

\* many1 of the option alternatives
parse_options(in) == options1(parse_option(in))

ColorCorrectedMapDefault ==
    [file_name |-> "", blend_u |-> None, blend_v |-> None, color_correct |-> None,
     clamp |-> None, texture_range |-> None, offset |-> None, scale |-> None,
     turbulance |-> None, texture_res |-> None]

NonColorCorrectedMapDefault ==
    [file_name |-> "", blend_u |-> None, blend_v |-> None, clamp |-> None,
     imf_chan |-> None, texture_range |-> None, offset |-> None, scale |-> None,
     turbulance |-> None, texture_res |-> None]

\* mutant: the BlendV arm writes blend_u
cc_option_blend_shared(m, e) ==
    CASE e.o = "FileName" -> [m EXCEPT !.file_name = e.s]
      [] e.o = "BlendU" -> [m EXCEPT !.blend_u = Some(e.on)]
      [] e.o = "BlendV" -> [m EXCEPT !.blend_u = Some(e.on)]
      [] e.o = "Cc" -> [m EXCEPT !.color_correct = Some(e.on)]
      [] e.o = "Clamp" -> [m EXCEPT !.clamp = Some(e.on)]
      [] e.o = "TextureRange" -> [m EXCEPT !.texture_range = Some(e.range)]
      [] e.o = "Offset" -> [m EXCEPT !.offset = Some(e.xyz)]
      [] e.o = "Scale" -> [m EXCEPT !.scale = Some(e.xyz)]
      [] e.o = "Turbulance" -> [m EXCEPT !.turbulance = Some(e.xyz)]
      [] e.o = "TextureRes" -> [m EXCEPT !.texture_res = Some(e.pixels)]
      [] OTHER -> m

\* the match of ColorCorrectedMap::new on one OptionElement
cc_option(m, e) ==
    CASE e.o = "FileName" -> [m EXCEPT !.file_name = e.s]
      [] e.o = "BlendU" -> [m EXCEPT !.blend_u = Some(e.on)]
      [] e.o = "BlendV" -> [m EXCEPT !.blend_v = Some(e.on)]
      [] e.o = "Cc" -> [m EXCEPT !.color_correct = Some(e.on)]
      [] e.o = "Clamp" -> [m EXCEPT !.clamp = Some(e.on)]
      [] e.o = "TextureRange" -> [m EXCEPT !.texture_range = Some(e.range)]
      [] e.o = "Offset" -> [m EXCEPT !.offset = Some(e.xyz)]
      [] e.o = "Scale" -> [m EXCEPT !.scale = Some(e.xyz)]
      [] e.o = "Turbulance" -> [m EXCEPT !.turbulance = Some(e.xyz)]
      [] e.o = "TextureRes" -> [m EXCEPT !.texture_res = Some(e.pixels)]
      [] OTHER -> m

\* the match of NonColorCorrectedMap::new on one OptionElement
ncc_option(m, e) ==
    CASE e.o = "FileName" -> [m EXCEPT !.file_name = e.s]
      [] e.o = "BlendU" -> [m EXCEPT !.blend_u = Some(e.on)]
      [] e.o = "BlendV" -> [m EXCEPT !.blend_v = Some(e.on)]
      [] e.o = "Clamp" -> [m EXCEPT !.clamp = Some(e.on)]
      [] e.o = "ImfChan" -> [m EXCEPT !.imf_chan = Some(e.s)]
      [] e.o = "TextureRange" -> [m EXCEPT !.texture_range = Some(e.range)]
      [] e.o = "Offset" -> [m EXCEPT !.offset = Some(e.xyz)]
      [] e.o = "Scale" -> [m EXCEPT !.scale = Some(e.xyz)]
      [] e.o = "Turbulance" -> [m EXCEPT !.turbulance = Some(e.xyz)]
      [] e.o = "TextureRes" -> [m EXCEPT !.texture_res = Some(e.pixels)]
      [] OTHER -> m

RECURSIVE cc_options(_, _)
cc_options(o, m) ==
    IF o = <<>> THEN m ELSE cc_options(Tail(o), cc_option(m, Head(o)))

RECURSIVE ncc_options(_, _)
ncc_options(o, m) ==
    IF o = <<>> THEN m ELSE ncc_options(Tail(o), ncc_option(m, Head(o)))

ColorCorrectedMap_new(o) == cc_options(o, ColorCorrectedMapDefault)

NonColorCorrectedMap_new(o) == ncc_options(o, NonColorCorrectedMapDefault)

\* the options of the given variant, in the order written
options_of(o, kind) == SelectSeq(o, LAMBDA e : e.o = kind)

\* the loop takes the first BumpMultiplier and breaks
BumpMap_new(o) ==
    [map_settings |-> Some(NonColorCorrectedMap_new(o)),
     bump_multiplier |->
         IF options_of(o, "BumpMultiplier") = <<>> THEN None
         ELSE Some(Head(options_of(o, "BumpMultiplier")).mult)]

\* the loop takes the first ReflectionType and breaks
ReflectionMap_new(o) ==
    [map_settings |-> Some(ColorCorrectedMap_new(o)),
     reflection_type |->
         IF options_of(o, "ReflectionType") = <<>> THEN ""
         ELSE Head(options_of(o, "ReflectionType")).s]

(***************************************************************************)
(* material.rs: material element parsers                                   *)
(***************************************************************************)
parse_new_material(in) ==
    LET r == keyword_arg(in, "NewMaterial", {"String"}) IN IF ~r.ok THEN Err
    ELSE Ok(r.rest, [e |-> "Name", name |-> get_token_string(r.out)])

\* preceded(keyword, parse_color_type)
keyword_color(in, kw, kind) ==
    LET k == token_match(in, {kw}) IN IF ~k.ok THEN Err
    ELSE wrap(parse_color_type(k.rest), kind, "color")

\* preceded(keyword, one number)
keyword_float(in, kw, kind) ==
    LET r == keyword_arg(in, kw, Num) IN IF ~r.ok THEN Err
    ELSE Ok(r.rest, [e |-> kind, val |-> get_token_float(r.out)])

parse_ambient(in) == keyword_color(in, "AmbientColor", "Ambient")

parse_diffuse(in) == keyword_color(in, "DiffuseColor", "Diffuse")

parse_specular(in) == keyword_color(in, "SpecularColor", "Specular")

parse_emissive_coefficient(in) ==
    keyword_color(in, "EmissiveCoefficient", "EmissiveCoefficient")

parse_specular_exponent(in) == keyword_float(in, "SpecularExponent", "SpecularExponent")

disolve_halo(in) ==
    LET r == keyword_arg(in, "Halo", Num) IN IF ~r.ok THEN Err
    ELSE Ok(r.rest, [c |-> "Halo", val |-> get_token_float(r.out)])

disolve_alpha(in) ==
    LET r == token_match(in, Num) IN IF ~r.ok THEN Err
    ELSE Ok(r.rest, [c |-> "Alpha", val |-> get_token_float(r.out)])

parse_disolve(in) ==
    LET k == token_match(in, {"Disolved"}) IN IF ~k.ok THEN Err ELSE
    wrap(first_ok(<<disolve_halo(k.rest), disolve_alpha(k.rest)>>),
         "Disolve", "disolve")

parse_transparency(in) == keyword_float(in, "Transparancy", "Transparency")

parse_transmission_factor(in) ==
    keyword_color(in, "TransmissionFactor", "TransmissionFactor")

parse_sharpness(in) == keyword_float(in, "Sharpness", "Sharpness")

parse_index_of_refraction(in) ==
    keyword_float(in, "IndexOfRefraction", "IndexOfRefraction")

\* `f as u32` of an i32: a negative number wraps to 2^32 + f.  The u32 is kept
\* as its two 16-bit halves, hi * 65536 + lo
i32_as_u32(i) ==
    IF i >= 0 THEN [hi |-> i \div 65536, lo |-> i % 65536]
    ELSE LET j == (i + 2147483647) + 1
         IN  [hi |-> 32768 + (j \div 65536), lo |-> j % 65536]

parse_illumination_model(in) ==
    LET r == keyword_arg(in, "IlluminationModel", {"Int"}) IN IF ~r.ok THEN Err
    ELSE Ok(r.rest, [e |-> "IlluminationModel",
                     mode |-> i32_as_u32(get_token_int(r.out))])

\* map(parse_options(), |o| ..::new(&o)) on the result o of parse_options
cc_map_of(o) == IF ~o.ok THEN Err ELSE Ok(o.rest, ColorCorrectedMap_new(o.out))

ncc_map_of(o) == IF ~o.ok THEN Err ELSE Ok(o.rest, NonColorCorrectedMap_new(o.out))

bump_map_of(o) == IF ~o.ok THEN Err ELSE Ok(o.rest, BumpMap_new(o.out))

reflection_map_of(o) == IF ~o.ok THEN Err ELSE Ok(o.rest, ReflectionMap_new(o.out))

\* preceded(keyword, parse_options) into a ColorCorrectedMap
keyword_cc_map(in, kw, kind) ==
    LET k == token_match(in, {kw}) IN IF ~k.ok THEN Err
    ELSE wrap(cc_map_of(parse_options(k.rest)), kind, "cc_map")

\* preceded(keyword, parse_options) into a NonColorCorrectedMap
keyword_ncc_map(in, kw, kind) ==
    LET k == token_match(in, {kw}) IN IF ~k.ok THEN Err
    ELSE wrap(ncc_map_of(parse_options(k.rest)), kind, "ncc_map")

parse_texture_map_ambient(in) == keyword_cc_map(in, "TextureMapAmbient", "TexMapAmbient")

parse_texture_map_diffuse(in) == keyword_cc_map(in, "TextureMapDiffuse", "TexMapDiffuse")

parse_texture_map_specular(in) ==
    keyword_cc_map(in, "TextureMapSpecular", "TexMapSpecular")

parse_shininess_map(in) == keyword_ncc_map(in, "TextureMapShininess", "ShininessMap")

parse_disolve_map(in) == keyword_ncc_map(in, "TextureMapDisolved", "DisolveMap")

parse_displacement_map(in) == keyword_ncc_map(in, "DisplacementMap", "DisplacementMap")

parse_decal(in) == keyword_ncc_map(in, "Decal", "Decal")

parse_bump_map(in) ==
    LET k == token_match(in, {"BumpMap"}) IN IF ~k.ok THEN Err
    ELSE wrap(bump_map_of(parse_options(k.rest)), "BumpMap", "bump")

parse_reflection_map(in) ==
    LET k == token_match(in, {"ReflectionMap"}) IN IF ~k.ok THEN Err
    ELSE wrap(reflection_map_of(parse_options(k.rest)), "ReflectionMap", "refl")

parse_anti_alias_map(in) ==
    LET r == keyword_arg(in, "AntiAliasMap", {"String"}) IN IF ~r.ok THEN Err
    ELSE Ok(r.rest, [e |-> "AntiAliasMap", on |-> on_off_or_default(r.out)])

\* the alt((..)) of parse_material_set
parse_material_element(in) ==
    first_ok(<<parse_new_material(in), parse_ambient(in), parse_diffuse(in),
               parse_specular(in), parse_emissive_coefficient(in),
               parse_specular_exponent(in), parse_disolve(in),
               parse_transparency(in), parse_transmission_factor(in),
               parse_sharpness(in), parse_index_of_refraction(in),
               parse_illumination_model(in), parse_texture_map_ambient(in),
               parse_texture_map_diffuse(in), parse_texture_map_specular(in),
               parse_shininess_map(in), parse_disolve_map(in),
               parse_displacement_map(in), parse_decal(in), parse_bump_map(in),
               parse_reflection_map(in), parse_anti_alias_map(in)>>)

(***************************************************************************)
(* material.rs: Material and the reduction of the element list             *)
(***************************************************************************)
MaterialDefault ==
    [name |-> "", ambient |-> None, diffuse |-> None, specular |-> None,
     emissive_coefficient |-> None, specular_exponent |-> None, disolve |-> None,
     transparancy |-> None, transmission_factor |-> None, sharpness |-> None,
     index_of_refraction |-> None, illumination_mode |-> None,
     texture_map_ambient |-> None, texture_map_diffuse |-> None,
     texture_map_specular |-> None, shininess_map |-> None, disolve_map |-> None,
     displacement_map |-> None, decal |-> None, bump_map |-> None,
     reflection_map |-> None, anti_alias_map |-> None]

set_from_material_element(m, e) ==
    CASE e.e = "Name" -> [m EXCEPT !.name = e.name]
      [] e.e = "Ambient" -> [m EXCEPT !.ambient = Some(e.color)]
      [] e.e = "Diffuse" -> [m EXCEPT !.diffuse = Some(e.color)]
      [] e.e = "Specular" -> [m EXCEPT !.specular = Some(e.color)]
      [] e.e = "EmissiveCoefficient" ->
             [m EXCEPT !.emissive_coefficient = Some(e.color)]
      [] e.e = "SpecularExponent" -> [m EXCEPT !.specular_exponent = Some(e.val)]
      [] e.e = "Disolve" -> [m EXCEPT !.disolve = Some(e.disolve)]
      [] e.e = "Transparency" -> [m EXCEPT !.transparancy = Some(e.val)]
      [] e.e = "TransmissionFactor" ->
             [m EXCEPT !.transmission_factor = Some(e.color)]
      [] e.e = "Sharpness" -> [m EXCEPT !.sharpness = Some(e.val)]
      [] e.e = "IndexOfRefraction" -> [m EXCEPT !.index_of_refraction = Some(e.val)]
      [] e.e = "IlluminationModel" -> [m EXCEPT !.illumination_mode = Some(e.mode)]
      [] e.e = "TexMapAmbient" -> [m EXCEPT !.texture_map_ambient = Some(e.cc_map)]
      [] e.e = "TexMapDiffuse" -> [m EXCEPT !.texture_map_diffuse = Some(e.cc_map)]
      [] e.e = "TexMapSpecular" -> [m EXCEPT !.texture_map_specular = Some(e.cc_map)]
      [] e.e = "ShininessMap" -> [m EXCEPT !.shininess_map = Some(e.ncc_map)]
      [] e.e = "DisolveMap" -> [m EXCEPT !.disolve_map = Some(e.ncc_map)]
      [] e.e = "DisplacementMap" -> [m EXCEPT !.displacement_map = Some(e.ncc_map)]
      [] e.e = "Decal" -> [m EXCEPT !.decal = Some(e.ncc_map)]
      [] e.e = "BumpMap" -> [m EXCEPT !.bump_map = Some(e.bump)]
      [] e.e = "ReflectionMap" -> [m EXCEPT !.reflection_map = Some(e.refl)]
      [] e.e = "AntiAliasMap" -> [m EXCEPT !.anti_alias_map = Some(e.on)]

\* mutant: an element met before any record is dropped instead of refused
loop_body_lenient(r, e) ==
    IF e.e = "Name"
    THEN [err |-> FALSE, res |-> Append(r, [MaterialDefault EXCEPT !.name = e.name])]
    ELSE IF r # <<>>
    THEN [err |-> FALSE,
          res |-> [r EXCEPT ![Len(r)] = set_from_material_element(r[Len(r)], e)]]
    ELSE [err |-> FALSE, res |-> r]

\* mutant: an element is applied to the first record instead of the last
loop_body_first(r, e) ==
    IF e.e = "Name"
    THEN [err |-> FALSE, res |-> Append(r, [MaterialDefault EXCEPT !.name = e.name])]
    ELSE IF r # <<>>
    THEN [err |-> FALSE,
          res |-> [r EXCEPT ![1] = set_from_material_element(r[1], e)]]
    ELSE [err |-> TRUE, res |-> r]

\* mutant: a new-material element whose name a record already has opens no
\* record
loop_body_by_name(r, e) ==
    IF e.e = "Name"
    THEN [err |-> FALSE,
          res |-> IF \E j \in DOMAIN r : r[j].name = e.name THEN r
                  ELSE Append(r, [MaterialDefault EXCEPT !.name = e.name])]
    ELSE IF r # <<>>
    THEN [err |-> FALSE,
          res |-> [r EXCEPT ![Len(r)] = set_from_material_element(r[Len(r)], e)]]
    ELSE [err |-> TRUE, res |-> r]

\* one iteration of `for e in elements`; err is the return Err(NewMaterial)
loop_body(r, e) ==
    IF e.e = "Name"
    THEN [err |-> FALSE, res |-> Append(r, [MaterialDefault EXCEPT !.name = e.name])]
    ELSE IF r # <<>>
    THEN [err |-> FALSE,
          res |-> [r EXCEPT ![Len(r)] = set_from_material_element(r[Len(r)], e)]]
    ELSE [err |-> TRUE, res |-> r]

(***************************************************************************)
(* Material inputs: token sequences of single directives                   *)
(***************************************************************************)
M_a == <<Kw("NewMaterial"), TStr("a")>>
M_b == <<Kw("NewMaterial"), TStr("b")>>
M_Ka == <<Kw("AmbientColor"), TInt(1), TInt(0), TInt(0)>>
M_Ka2 == <<Kw("AmbientColor"), TFloat(2), TFloat(2), TFloat(2)>>
M_Kd == <<Kw("DiffuseColor"), TInt(1), TInt(0), TInt(0)>>
M_Ns == <<Kw("SpecularExponent"), TInt(10)>>
M_Ka_short == <<Kw("AmbientColor"), TInt(1), TInt(2)>>
M_boost == <<Kw("TextureMapDiffuse"), Kw("OptionBoost"), TInt(1), TStr("t.png")>>
M_word == <<TStr("foo")>>

\* every element kind, the variants of colors, disolve and maps, and
\* sequences that match no element
MtlDirectives ==
    {M_a, M_Ka, M_Kd, M_Ns, M_Ka_short, M_boost, M_word,
     <<Kw("AmbientColor"), Kw("Spectral"), TStr("f.rfl"), TFloat(5)>>,
     <<Kw("SpecularColor"), Kw("Xyz"), TFloat(3)>>,
     <<Kw("EmissiveCoefficient"), Kw("Spectral"), TStr("f.rfl")>>,
     <<Kw("Disolved"), TFloat(5)>>,
     <<Kw("Disolved"), Kw("Halo"), TFloat(5)>>,
     <<Kw("Transparancy"), TFloat(5)>>,
     <<Kw("TransmissionFactor"), Kw("Xyz"), TInt(1), TInt(2), TInt(3)>>,
     <<Kw("Sharpness"), TInt(60)>>,
     <<Kw("IndexOfRefraction"), TFloat(15)>>,
     <<Kw("IlluminationModel"), TInt(2)>>,
     <<Kw("IlluminationModel"), TInt(-1)>>,
     <<Kw("IlluminationModel"), TFloat(20)>>,
     <<Kw("TextureMapAmbient"), TStr("t.png")>>,
     <<Kw("TextureMapDiffuse"), Kw("OptionBlendU"), TStr("on"),
       Kw("OptionRange"), TInt(0), TInt(1), TStr("t.png")>>,
     <<Kw("TextureMapSpecular"), Kw("OptionColorCorrect"), TStr("on"),
       Kw("OptionClamp"), TStr("off"), Kw("OptionOffset"), TInt(1), TInt(2)>>,
     <<Kw("TextureMapShininess"), Kw("OptionIMFChan"), TStr("r"), TStr("t.png")>>,
     <<Kw("TextureMapDisolved"), Kw("OptionScale"), TInt(2), TStr("t.png")>>,
     <<Kw("DisplacementMap"), Kw("OptionTurbulence"), TInt(1), TInt(1), TInt(1),
       Kw("OptionTextureResolution"), TInt(256), TStr("t.png")>>,
     <<Kw("Decal"), Kw("OptionBlendV"), TStr("maybe"), TStr("t.png")>>,
     <<Kw("BumpMap"), Kw("OptionBumpMultiplier"), TInt(2),
       Kw("OptionBumpMultiplier"), TInt(3), TStr("t.png")>>,
     <<Kw("ReflectionMap"), Kw("ReflectionType"), TStr("sphere"), TStr("t.png")>>,
     <<Kw("AntiAliasMap"), TStr("on")>>,
     <<Kw("NewMaterial")>>}

\* two records and fields written more than once
FieldDirectives == {M_a, M_b, M_Ka, M_Ka2, M_Kd, M_Ns, M_Ka_short}

InitMtlParse(directives, n) ==
    /\ \E ds \in SeqsUpTo(directives, n) : tokens = Flatten(ds)
    /\ input = tokens
    /\ elements = <<>>
    /\ applied = 0
    /\ res = <<>>
    /\ mtl_result = "parsing"
    /\ IdleObj
    /\ IdleIdx

InitMtl ==
    \/ InitMtlParse(MtlDirectives, MaxMtl)
    \/ InitMtlParse(FieldDirectives, MaxFields)

(***************************************************************************)
(* material::parse                                                         *)
(***************************************************************************)
\* mutant: many0, an iteration that fails ends the run with what it has
many0_step(r, yields) ==
    /\ yields = IF r.ok THEN "parsing" ELSE "reducing"
    /\ input' = IF r.ok THEN r.rest ELSE input
    /\ elements' = IF r.ok THEN Append(elements, r.out) ELSE elements
    /\ mtl_result' = yields

\* one many1 iteration, r the result of its alt((..)) at the current position:
\* an element is pushed; on Err the first iteration gives Err(Parse), a later
\* one ends many1 with Ok((rest, elements)), of which `Ok((_, x)) => x` keeps
\* the elements only
many1_step(r, yields) ==
    /\ yields = IF r.ok THEN "parsing"
                ELSE IF elements = <<>> THEN "Err(Parse)" ELSE "reducing"
    /\ input' = IF r.ok THEN r.rest ELSE input
    /\ elements' = IF r.ok THEN Append(elements, r.out) ELSE elements
    /\ mtl_result' = yields

\* many1: an iteration whose alt((..)) yields an element
Many1Element ==
    /\ mtl_result = "parsing"
    /\ many1_step(parse_material_element(input), "parsing")
    /\ UNCHANGED <<tokens, applied, res, objVars, idxVars>>

\* many1: the first iteration fails; parse returns Err(MaterialError::Parse)
Many1Err ==
    /\ mtl_result = "parsing"
    /\ many1_step(parse_material_element(input), "Err(Parse)")
    /\ UNCHANGED <<tokens, applied, res, objVars, idxVars>>

\* many1: a later iteration fails; the for loop starts
Many1Ok ==
    /\ mtl_result = "parsing"
    /\ many1_step(parse_material_element(input), "reducing")
    /\ UNCHANGED <<tokens, applied, res, objVars, idxVars>>

\* one iteration of the for loop, b the outcome of its body
loop_step(b, err) ==
    /\ b.err = err
    /\ mtl_result' = IF b.err THEN "Err(NewMaterial)" ELSE "reducing"
    /\ res' = IF b.err THEN <<>> ELSE b.res
    /\ applied' = IF b.err THEN applied ELSE applied + 1

\* for e in elements: the Name arm and the last_mut() arm
LoopStep ==
    /\ mtl_result = "reducing"
    /\ applied < Len(elements)
    /\ loop_step(loop_body(res, elements[applied + 1]), FALSE)
    /\ UNCHANGED <<tokens, input, elements, objVars, idxVars>>

\* for e in elements: return Err(MaterialError::NewMaterial), res is dropped
LoopErr ==
    /\ mtl_result = "reducing"
    /\ applied < Len(elements)
    /\ loop_step(loop_body(res, elements[applied + 1]), TRUE)
    /\ UNCHANGED <<tokens, input, elements, objVars, idxVars>>

\* Ok(res)
MtlReturn ==
    /\ mtl_result = "reducing"
    /\ applied = Len(elements)
    /\ mtl_result' = "Ok"
    /\ UNCHANGED <<tokens, input, elements, applied, res, objVars, idxVars>>

NextMtl ==
    \/ Many1Element \/ Many1Err \/ Many1Ok
    \/ LoopStep \/ LoopErr \/ MtlReturn

SpecMtl == InitMtl /\ [][NextMtl]_vars

(***************************************************************************)
(* Properties of material::parse                                           *)
(***************************************************************************)
MtlDone == mtl_result \in {"Ok", "Err(Parse)", "Err(NewMaterial)"}

\* C5: when the token stream starts with a material element that is not a
\* new-material directive, parse returns Err(MaterialError::NewMaterial) and
\* no material list, whatever follows that element
C5_ElementBeforeNewMaterial ==
    (/\ MtlDone
     /\ parse_material_element(tokens).ok
     /\ parse_material_element(tokens).out.e # "Name")
        => mtl_result = "Err(NewMaterial)" /\ res = <<>>

C5_Witness ==
    /\ mtl_result = "Err(NewMaterial)"
    /\ Len(elements) = 2
    /\ elements[1].e = "Ambient"
    /\ elements[2].e = "Name"

\* the field of Material that documents each element kind, and the value the
\* element carries
FieldOf ==
    [Ambient |-> "ambient", Diffuse |-> "diffuse", Specular |-> "specular",
     EmissiveCoefficient |-> "emissive_coefficient",
     SpecularExponent |-> "specular_exponent", Disolve |-> "disolve",
     Transparency |-> "transparancy", TransmissionFactor |-> "transmission_factor",
     Sharpness |-> "sharpness", IndexOfRefraction |-> "index_of_refraction",
     IlluminationModel |-> "illumination_mode",
     TexMapAmbient |-> "texture_map_ambient", TexMapDiffuse |-> "texture_map_diffuse",
     TexMapSpecular |-> "texture_map_specular", ShininessMap |-> "shininess_map",
     DisolveMap |-> "disolve_map", DisplacementMap |-> "displacement_map",
     Decal |-> "decal", BumpMap |-> "bump_map", ReflectionMap |-> "reflection_map",
     AntiAliasMap |-> "anti_alias_map"]

Payload(e) ==
    CASE e.e \in {"Ambient", "Diffuse", "Specular", "EmissiveCoefficient",
                  "TransmissionFactor"} -> e.color
      [] e.e \in {"SpecularExponent", "Transparency", "Sharpness",
                  "IndexOfRefraction"} -> e.val
      [] e.e = "Disolve" -> e.disolve
      [] e.e = "IlluminationModel" -> e.mode
      [] e.e \in {"TexMapAmbient", "TexMapDiffuse", "TexMapSpecular"} -> e.cc_map
      [] e.e \in {"ShininessMap", "DisolveMap", "DisplacementMap", "Decal"} -> e.ncc_map
      [] e.e = "BumpMap" -> e.bump
      [] e.e = "ReflectionMap" -> e.refl
      [] e.e = "AntiAliasMap" -> e.on

\* the positions of the new-material elements among the first n elements
Starts(n) == SelectSeq([i \in 1..n |-> i], LAMBDA i : elements[i].e = "Name")

\* the value field `kind` must hold after the elements from + 1 .. to
LastWritten(kind, from, to) ==
    LET hits == {i \in (from + 1)..to : elements[i].e = kind}
    IN  IF hits = {} THEN None ELSE Some(Payload(elements[MaxOf(hits)]))

\* C6: after every iteration of the reduction there is one record per
\* new-material element visited, named by it, and each field of a record
\* holds the value of the last element of its kind between the record's
\* new-material element and the next one (None when there is no such element)
C6_LastElementOfKindSinceRecordStarted ==
    mtl_result \in {"reducing", "Ok"} =>
        /\ Len(res) = Len(Starts(applied))
        /\ \A j \in DOMAIN res :
               /\ res[j].name = elements[Starts(applied)[j]].name
               /\ \A kind \in DOMAIN FieldOf :
                      res[j][FieldOf[kind]] =
                          LastWritten(kind, Starts(applied)[j],
                                      IF j < Len(res) THEN Starts(applied)[j + 1] - 1
                                      ELSE applied)

C6_Witness ==
    /\ mtl_result = "Ok"
    /\ Len(elements) = 4
    /\ elements[1].e = "Name" /\ elements[2].e = "Ambient"
    /\ elements[3].e = "Name" /\ elements[4].e = "Ambient"
    /\ elements[2].color # elements[4].color
    /\ res[1].ambient = Some(elements[2].color)
    /\ res[2].ambient = Some(elements[4].color)

\* C7: when parse returns Ok, no token sequence was left unmatched: many1
\* consumed the whole token stream
C7_OkOnlyWhenAllParsed == mtl_result = "Ok" => input = <<>>

(***************************************************************************)
(* The color directives Ka, Kd, Ks, Ke and Tf on one written color         *)
(***************************************************************************)
NumTokens == {TInt(1), TFloat(5)}

\* a color as written: a shape word (none for a plain triple) and the
\* numbers after it
ColorTexts ==
    [shape : {"spectral", "xyz", "plain"}, file : {"tin.rfl"},
     nums : SeqsUpTo(NumTokens, MaxNums)]

\* tokenizer::parse_mtl on the color: the shape keyword, the file name as a
\* String, each number as Int or Float
color_tokens(c) ==
    (CASE c.shape = "spectral" -> <<Kw("Spectral"), TStr(c.file)>>
       [] c.shape = "xyz" -> <<Kw("Xyz")>>
       [] c.shape = "plain" -> <<>>) \o c.nums

InitColor ==
    /\ text \in ColorTexts
    /\ parsed = [kind |-> "none"]
    /\ tokens = <<>> /\ input = <<>>
    /\ IdleObj
    /\ IdleMtl

ParseAmbient ==
    /\ parsed.kind = "none"
    /\ parsed' = [kind |-> "Ambient",
                  r |-> parse_ambient(<<Kw("AmbientColor")>> \o color_tokens(text))]
    /\ UNCHANGED <<tokens, input, objVars, mtlVars, text>>

ParseDiffuse ==
    /\ parsed.kind = "none"
    /\ parsed' = [kind |-> "Diffuse",
                  r |-> parse_diffuse(<<Kw("DiffuseColor")>> \o color_tokens(text))]
    /\ UNCHANGED <<tokens, input, objVars, mtlVars, text>>

ParseSpecular ==
    /\ parsed.kind = "none"
    /\ parsed' = [kind |-> "Specular",
                  r |-> parse_specular(<<Kw("SpecularColor")>> \o color_tokens(text))]
    /\ UNCHANGED <<tokens, input, objVars, mtlVars, text>>

ParseEmissiveCoefficient ==
    /\ parsed.kind = "none"
    /\ parsed' = [kind |-> "EmissiveCoefficient",
                  r |-> parse_emissive_coefficient(
                            <<Kw("EmissiveCoefficient")>> \o color_tokens(text))]
    /\ UNCHANGED <<tokens, input, objVars, mtlVars, text>>

ParseTransmissionFactor ==
    /\ parsed.kind = "none"
    /\ parsed' = [kind |-> "TransmissionFactor",
                  r |-> parse_transmission_factor(
                            <<Kw("TransmissionFactor")>> \o color_tokens(text))]
    /\ UNCHANGED <<tokens, input, objVars, mtlVars, text>>

NextColor ==
    \/ ParseAmbient \/ ParseDiffuse \/ ParseSpecular
    \/ ParseEmissiveCoefficient \/ ParseTransmissionFactor

SpecColor == InitColor /\ [][NextColor]_vars

ColorDirectives ==
    {"Ambient", "Diffuse", "Specular", "EmissiveCoefficient", "TransmissionFactor"}

\* the number a written number token stands for, in tenths
Tenths(tok) == IF tok.t = "Int" THEN 10 * tok.i ELSE tok.f

\* the count of numbers each shape admits
ColorWellFormed(c) ==
    CASE c.shape = "spectral" -> Len(c.nums) \in 0..1
      [] c.shape = "xyz" -> Len(c.nums) \in 1..3
      [] c.shape = "plain" -> Len(c.nums) = 3

ColorExpected(c) ==
    CASE c.shape = "spectral" ->
             [c |-> "Spectral", file |-> c.file,
              factor |-> IF c.nums = <<>> THEN 10 ELSE Tenths(c.nums[1])]
      [] c.shape = "xyz" ->
             [c |-> "CieXyz", x |-> Tenths(c.nums[1]),
              y |-> Tenths(c.nums[IF Len(c.nums) >= 2 THEN 2 ELSE 1]),
              z |-> Tenths(c.nums[IF Len(c.nums) >= 3 THEN 3 ELSE 1])]
      [] c.shape = "plain" ->
             [c |-> "Rgb", r |-> Tenths(c.nums[1]), g |-> Tenths(c.nums[2]),
              b |-> Tenths(c.nums[3])]

\* C11: a color directive whose color is written in one of the three shapes
\* is consumed whole and carries Spectral(file, factor or 1.0),
\* CieXyz(x, y or x, z or x) or Rgb(r, g, b)
C11_ColorValueByShape ==
    (parsed.kind \in ColorDirectives /\ ColorWellFormed(text)) =>
        /\ parsed.r.ok
        /\ parsed.r.rest = <<>>
        /\ parsed.r.out.e = parsed.kind
        /\ parsed.r.out.color = ColorExpected(text)

C11_Witness ==
    /\ parsed.kind = "Specular"
    /\ text.shape = "xyz"
    /\ Len(text.nums) = 1
    /\ parsed.r.ok
    /\ parsed.r.out.color = [c |-> "CieXyz", x |-> 5, y |-> 5, z |-> 5]

(***************************************************************************)
(* The map directives on one written run of options and file names, and on *)
(* the same run with its options in another order                          *)
(***************************************************************************)
O_blendu_on == <<Kw("OptionBlendU"), TStr("on")>>
O_blendv_off == <<Kw("OptionBlendV"), TStr("off")>>
O_blendu_off == <<Kw("OptionBlendU"), TStr("off")>>
O_bm_1 == <<Kw("OptionBumpMultiplier"), TInt(1)>>
O_bm_2 == <<Kw("OptionBumpMultiplier"), TFloat(25)>>
O_type_sphere == <<Kw("ReflectionType"), TStr("sphere")>>
O_type_cube == <<Kw("ReflectionType"), TStr("cube_top")>>
O_o == <<Kw("OptionOffset"), TInt(1), TInt(2)>>
F_t == <<TStr("t.png")>>
F_u == <<TStr("u.png")>>

\* options as written, each with its arguments
OptionBlocks ==
    {O_blendu_on, O_blendu_off, O_blendv_off, O_bm_1, O_bm_2,
     O_type_sphere, O_type_cube, O_o}

Reorderings(s) ==
    {[i \in 1..Len(s) |-> s[p[i]]] :
        p \in {q \in [1..Len(s) -> 1..Len(s)] :
                  \A i, j \in 1..Len(s) : q[i] = q[j] => i = j}}

IdleColorless == tokens = <<>> /\ input = <<>> /\ IdleObj /\ IdleMtl

\* options, then the file name; and the same with the options reordered
InitReorder ==
    /\ \E o \in SeqsUpTo(OptionBlocks, MaxOptions) : \E r \in Reorderings(o) :
           text = [written |-> o \o <<F_t>>, reordered |-> r \o <<F_t>>]
    /\ parsed = [kind |-> "none"]
    /\ IdleColorless

\* one map directive on both runs
map_parsed(kind, r, r2) ==
    /\ parsed.kind = "none"
    /\ parsed' = [kind |-> kind, r |-> r, r2 |-> r2]
    /\ UNCHANGED <<tokens, input, objVars, mtlVars, text>>

ParseTextureMapAmbient ==
    /\ map_parsed("TexMapAmbient",
           parse_texture_map_ambient(<<Kw("TextureMapAmbient")>> \o Flatten(text.written)),
           parse_texture_map_ambient(<<Kw("TextureMapAmbient")>> \o Flatten(text.reordered)))

ParseTextureMapDiffuse ==
    /\ map_parsed("TexMapDiffuse",
           parse_texture_map_diffuse(<<Kw("TextureMapDiffuse")>> \o Flatten(text.written)),
           parse_texture_map_diffuse(<<Kw("TextureMapDiffuse")>> \o Flatten(text.reordered)))

ParseTextureMapSpecular ==
    /\ map_parsed("TexMapSpecular",
           parse_texture_map_specular(<<Kw("TextureMapSpecular")>> \o Flatten(text.written)),
           parse_texture_map_specular(<<Kw("TextureMapSpecular")>> \o Flatten(text.reordered)))

ParseShininessMap ==
    /\ map_parsed("ShininessMap",
           parse_shininess_map(<<Kw("TextureMapShininess")>> \o Flatten(text.written)),
           parse_shininess_map(<<Kw("TextureMapShininess")>> \o Flatten(text.reordered)))

ParseDisolveMap ==
    /\ map_parsed("DisolveMap",
           parse_disolve_map(<<Kw("TextureMapDisolved")>> \o Flatten(text.written)),
           parse_disolve_map(<<Kw("TextureMapDisolved")>> \o Flatten(text.reordered)))

ParseDisplacementMap ==
    /\ map_parsed("DisplacementMap",
           parse_displacement_map(<<Kw("DisplacementMap")>> \o Flatten(text.written)),
           parse_displacement_map(<<Kw("DisplacementMap")>> \o Flatten(text.reordered)))

ParseDecal ==
    /\ map_parsed("Decal",
           parse_decal(<<Kw("Decal")>> \o Flatten(text.written)),
           parse_decal(<<Kw("Decal")>> \o Flatten(text.reordered)))

ParseBumpMap ==
    /\ map_parsed("BumpMap",
           parse_bump_map(<<Kw("BumpMap")>> \o Flatten(text.written)),
           parse_bump_map(<<Kw("BumpMap")>> \o Flatten(text.reordered)))

ParseReflectionMap ==
    /\ map_parsed("ReflectionMap",
           parse_reflection_map(<<Kw("ReflectionMap")>> \o Flatten(text.written)),
           parse_reflection_map(<<Kw("ReflectionMap")>> \o Flatten(text.reordered)))

NextMap ==
    \/ ParseTextureMapAmbient \/ ParseTextureMapDiffuse \/ ParseTextureMapSpecular
    \/ ParseShininessMap \/ ParseDisolveMap \/ ParseDisplacementMap \/ ParseDecal
    \/ ParseBumpMap \/ ParseReflectionMap

SpecReorder == InitReorder /\ [][NextMap]_vars

MapDirectives ==
    {"TexMapAmbient", "TexMapDiffuse", "TexMapSpecular", "ShininessMap", "DisolveMap",
     "DisplacementMap", "Decal", "BumpMap", "ReflectionMap"}

\* the options of one keyword, in the order written
OptionsOf(run, kw) == SelectSeq(run, LAMBDA b : Head(b) = Kw(kw))

\* the occurrences of each option are in the same order in both runs
KeepsRepeatedInOrder(a, b) ==
    \A blk \in Range(a) : OptionsOf(a, Head(blk).t) = OptionsOf(b, Head(blk).t)

\* C12 as claimed: every reordering of the options before the file name
\* gives the same map record, also when an option occurs more than once
C12_AnyReorderingSameMap ==
    parsed.kind \in MapDirectives => parsed.r = parsed.r2

\* C12: a reordering of the options before the file name that keeps the
\* occurrences of a repeated option in their order gives the same map record
C12_ReorderingSameMap ==
    (parsed.kind \in MapDirectives
        /\ KeepsRepeatedInOrder(text.written, text.reordered)) =>
            /\ parsed.r.ok
            /\ parsed.r = parsed.r2

C12_Witness ==
    /\ parsed.kind = "BumpMap"
    /\ text.written = <<O_blendu_on, O_bm_1, O_blendu_off, F_t>>
    /\ text.reordered = <<O_bm_1, O_blendu_on, O_blendu_off, F_t>>
    /\ parsed.r.ok
    /\ parsed.r.out.bump.bump_multiplier = Some(10)
    /\ parsed.r.out.bump.map_settings[1].blend_u = Some(FALSE)
    /\ parsed.r2 = parsed.r

(***************************************************************************)
(* The map directives on any run of options and file names                 *)
(***************************************************************************)
InitRun ==
    /\ \E run \in SeqsUpTo(OptionBlocks \cup {F_t, F_u}, MaxRun) :
           text = [written |-> run, reordered |-> run]
    /\ parsed = [kind |-> "none"]
    /\ IdleColorless

SpecRun == InitRun /\ [][NextMap]_vars

IsFileName(item) == Head(item).t = "String"

\* the place of the first file name of the run, 0 when it has none
FirstFileName(run) ==
    IF \E i \in 1..Len(run) : IsFileName(run[i])
    THEN CHOOSE i \in 1..Len(run) :
             IsFileName(run[i]) /\ \A j \in 1..(i - 1) : ~IsFileName(run[j])
    ELSE 0

\* C13: a map directive is not accepted when its run has no file name, and
\* otherwise it is consumed up to its first file name and no further
C13_RunEndsAtFirstFileName ==
    parsed.kind \in MapDirectives =>
        IF FirstFileName(text.written) = 0 THEN ~parsed.r.ok
        ELSE /\ parsed.r.ok
             /\ parsed.r.rest =
                    Flatten(SubSeq(text.written, FirstFileName(text.written) + 1,
                                   Len(text.written)))

(***************************************************************************)
(* The directives that act on the group settings and the carried state     *)
(***************************************************************************)
D_usemap == <<Kw("UseTextureMap"), TStr("t1")>>
D_bevel_on == <<Kw("Bevel"), TStr("on")>>
D_c_interp_on == <<Kw("CInterp"), TStr("on")>>
D_d_interp_on == <<Kw("DInterp"), TStr("on")>>
D_shadow_obj == <<Kw("ShadowObj"), TStr("a.obj")>>
D_shadow_obj_b == <<Kw("ShadowObj"), TStr("b.obj")>>
D_trace_obj == <<Kw("TraceObj"), TStr("t.obj")>>
D_s_off == <<Kw("Smoothing"), TStr("off")>>
D_s_word == <<Kw("Smoothing"), TStr("smooth")>>

SettingsDirectives ==
    {D_g_a, D_g_ba, D_usemtl, D_usemap, D_bevel_on, D_c_interp_on, D_d_interp_on,
     D_shadow_obj, D_shadow_obj_b, D_trace_obj, D_s2, D_s_on, D_s_off, D_s_word, D_f}

InitSettings == InitParse(SettingsDirectives, MaxSettings)

NextSettings ==
    \/ ReduceFace \/ ReduceGroup \/ ReduceMaterial \/ ReduceTextureMap
    \/ ReduceSmoothing \/ ReduceBevel \/ ReduceCInterp \/ ReduceDInterp
    \/ ReduceShadowObj \/ ReduceTraceObj
    \/ ObjReturn

SpecSettings == InitSettings /\ [][NextSettings]_vars

\* this step reduces a directive of the given kind
Reduced(kind) ==
    /\ Len(elems') = Len(elems) + 1
    /\ elems'[Len(elems')].e = kind

\* C14: a group directive makes the listed names the active groups, gives a
\* new group default settings and leaves the settings of an existing group
\* as they are
C14_GroupKeepsExistingSettings ==
    [][Reduced("Group") =>
          /\ model'.current_group = elems'[Len(elems')].names
          /\ DOMAIN model'.groups =
                 DOMAIN model.groups \cup Range(elems'[Len(elems')].names)
          /\ \A g \in DOMAIN model'.groups :
                 model'.groups[g] = IF g \in DOMAIN model.groups
                                    THEN model.groups[g] ELSE GroupDefault]_vars

\* after the step, every active group has val in the field and every other
\* group has the settings it had
SetOnActiveOnly(field, val) ==
    /\ DOMAIN model'.groups = DOMAIN model.groups \cup Range(model.current_group)
    /\ \A g \in DOMAIN model'.groups :
           IF g \in Range(model.current_group)
           THEN model'.groups[g][field] = val
           ELSE model'.groups[g] = model.groups[g]

\* C15: usemtl (usemap) sets material_name (texture_map) on the settings of
\* every active group, and the settings of the other groups stay as they are
C15_MaterialOnActiveGroupsOnly ==
    [][/\ Reduced("Material") =>
              SetOnActiveOnly("material_name", elems'[Len(elems')].name)
       /\ Reduced("TextureMap") =>
              SetOnActiveOnly("texture_map", Some(elems'[Len(elems')].name))]_vars

C15_Witness ==
    /\ tokens = D_usemtl \o D_g_ba \o D_usemap
    /\ input = <<>>
    /\ model.current_group = <<"b", "a">>
    /\ model.groups["a"].texture_map = Some("t1")
    /\ model.groups["b"].texture_map = Some("t1")
    /\ model.groups["default"] = [GroupDefault EXCEPT !.material_name = "m1"]

\* this step reduces a smoothing directive whose argument is a word other
\* than off
ReducedSmoothingWord ==
    /\ Reduced("Smoothing")
    /\ input[2].t = "String"
    /\ input[2].s # "off"

FlagOnActive(field) ==
    \A g \in Range(model.current_group) :
        /\ g \in DOMAIN model'.groups
        /\ model'.groups[g][field] = (input[2].s = "on")

\* C17: bevel, c_interp and d_interp set their flag on the settings of every
\* active group to the value of the on / off word
C17_FlagOnActiveGroups ==
    [][/\ Reduced("Bevel") => FlagOnActive("bevel")
       /\ Reduced("CInterp") => FlagOnActive("c_interp")
       /\ Reduced("DInterp") => FlagOnActive("d_interp")]_vars

\* the name of the last directive of the kind reduced so far
LastNamed(kind) ==
    IF \E i \in DOMAIN elems : elems[i].e = kind
    THEN Some(elems[MaxOf({i \in DOMAIN elems : elems[i].e = kind})].name)
    ELSE None

\* C18: shadow_obj (trace_obj) of the model is the file name of the most
\* recent shadow_obj (trace_obj) directive, and absent when there was none
C18_MostRecentShadowObj ==
    /\ model.shadow_obj = LastNamed("ShadowObj")
    /\ model.trace_obj = LastNamed("TraceObj")

(***************************************************************************)
(* material::parse on directives with on / off words                       *)
(***************************************************************************)
\* map_Kd -blendu u -blendv v -cc c -clamp k t.png
map_Kd_on_off(u, v, c, k) ==
    <<Kw("TextureMapDiffuse"), Kw("OptionBlendU"), TStr(u), Kw("OptionBlendV"), TStr(v),
      Kw("OptionColorCorrect"), TStr(c), Kw("OptionClamp"), TStr(k), TStr("t.png")>>

map_aat_on_off(w) == <<Kw("AntiAliasMap"), TStr(w)>>

\* each option and the flag with each of the words on, off, ON and maybe
OnOffDirectives ==
    {M_a, M_Ns,
     map_Kd_on_off("on", "off", "ON", "maybe"), map_Kd_on_off("ON", "maybe", "on", "off"),
     map_Kd_on_off("maybe", "on", "off", "ON"), map_Kd_on_off("off", "ON", "maybe", "on"),
     map_aat_on_off("on"), map_aat_on_off("off"), map_aat_on_off("ON"),
     map_aat_on_off("maybe")}

\* text keeps the directives as written
InitOnOff ==
    /\ \E ds \in SeqsUpTo(OnOffDirectives, MaxOnOff) :
           text = ds /\ tokens = Flatten(ds)
    /\ input = tokens
    /\ elements = <<>>
    /\ applied = 0
    /\ res = <<>>
    /\ mtl_result = "parsing"
    /\ parsed = [kind |-> "none"]
    /\ IdleObj

SpecOnOff == InitOnOff /\ [][NextMtl]_vars

\* the value an on / off word stands for: true for on, false for every other
OnOffWord(tok) == tok.s = "on"

\* the element a written directive with on / off words stands for
OnOffElement(d) ==
    IF Head(d) = Kw("AntiAliasMap")
    THEN [e |-> "AntiAliasMap", on |-> OnOffWord(d[2])]
    ELSE [e |-> "TexMapDiffuse",
          cc_map |-> [ColorCorrectedMapDefault EXCEPT
                         !.file_name = "t.png",
                         !.blend_u = Some(OnOffWord(d[3])),
                         !.blend_v = Some(OnOffWord(d[5])),
                         !.color_correct = Some(OnOffWord(d[7])),
                         !.clamp = Some(OnOffWord(d[9]))]]

HasOnOffWord(d) == Head(d) \in {Kw("AntiAliasMap"), Kw("TextureMapDiffuse")}

\* C19: -blendu, -blendv, -cc, -clamp and map_aat are true for the word on
\* and false for off and for every other word, ON included; no such word
\* ends the parse: every directive written becomes an element, and the flag
\* of a material is the one of its last map_aat
C19_OnOffWords ==
    /\ mtl_result # "parsing" =>
           /\ input = <<>>
           /\ Len(elements) = Len(text)
           /\ \A i \in DOMAIN text :
                  HasOnOffWord(text[i]) => elements[i] = OnOffElement(text[i])
    /\ (mtl_result = "Ok" /\ HasOnOffWord(text[Len(text)])) =>
           LET m == res[Len(res)]
               e == OnOffElement(text[Len(text)])
           IN  IF e.e = "AntiAliasMap" THEN m.anti_alias_map = Some(e.on)
               ELSE m.texture_map_diffuse = Some(e.cc_map)

C19_Witness ==
    /\ mtl_result = "Ok"
    /\ text = <<M_a, map_Kd_on_off("ON", "maybe", "on", "off"), map_aat_on_off("ON")>>
    /\ res[1].anti_alias_map = Some(FALSE)
    /\ res[1].texture_map_diffuse[1].blend_u = Some(FALSE)
    /\ res[1].texture_map_diffuse[1].color_correct = Some(TRUE)

(***************************************************************************)
(* tokenizer: the text of a file is a string; Head, Tail, SubSeq and Len   *)
(* take it one character at a time                                         *)
(***************************************************************************)
UpperCase == "ABCDEFGHIJKLMNOPQRSTUVWXYZ"
LowerCase == "abcdefghijklmnopqrstuvwxyz"
DecimalDigits == "0123456789"

Chars(s) == {SubSeq(s, i, i) : i \in 1..Len(s)}
PlaceIn(c, s) == CHOOSE i \in 1..Len(s) : SubSeq(s, i, i) = c

take(in, n) == SubSeq(in, 1, n)
drop(in, n) == SubSeq(in, n + 1, Len(in))

UpperLetters == Chars(UpperCase)
LowerLetters == Chars(LowerCase)
LowerOf == [c \in UpperLetters |-> SubSeq(LowerCase, PlaceIn(c, UpperCase), PlaceIn(c, UpperCase))]
UpperOf == [c \in LowerLetters |-> SubSeq(UpperCase, PlaceIn(c, LowerCase), PlaceIn(c, LowerCase))]

\* char::to_lowercase on the letters of the keywords
char_to_lowercase(c) == IF c \in UpperLetters THEN LowerOf[c] ELSE c

RECURSIVE to_lowercase(_)
to_lowercase(s) ==
    IF s = "" THEN "" ELSE char_to_lowercase(Head(s)) \o to_lowercase(Tail(s))

Digits == Chars(DecimalDigits)
DigitOf == [c \in Digits |-> PlaceIn(c, DecimalDigits) - 1]
MultiSpace == {" ", "\t", "\r", "\n"}
Ignore == [t |-> "Ignore"]

\* the length of the longest prefix of in made of characters of S
RECURSIVE span(_, _)
span(in, S) ==
    IF in = "" THEN 0 ELSE IF Head(in) \in S THEN 1 + span(Tail(in), S) ELSE 0

\* the length of the longest prefix of in with no character of S
RECURSIVE span_not(_, _)
span_not(in, S) ==
    IF in = "" THEN 0 ELSE IF Head(in) \in S THEN 0 ELSE 1 + span_not(Tail(in), S)

tag(in, t) ==
    IF Len(in) >= Len(t) /\ take(in, Len(t)) = t THEN Ok(drop(in, Len(t)), t) ELSE Err

\* the text matched is returned as written
tag_no_case(in, t) ==
    IF Len(in) >= Len(t) /\ to_lowercase(take(in, Len(t))) = to_lowercase(t)
    THEN Ok(drop(in, Len(t)), take(in, Len(t)))
    ELSE Err

\* alt([tag_no_case(..), ..]): the first tag that matches
alt_tags(in, tags) == first_ok([i \in DOMAIN tags |-> tag_no_case(in, tags[i])])

ObjTags ==
    <<"mtllib", "usemtl", "bevel", "c_interp", "d_interp", "lod", "shadow_obj",
      "trace_obj", "maplib", "usemap", "vt", "vn", "vp", "v", "f", "l", "p", "o",
      "g", "s">>

ObjKeywords ==
    [mtllib |-> "MaterialLib", usemtl |-> "UseMaterial", vt |-> "VertexTexture",
     vn |-> "VertexNormal", vp |-> "VertexParam", v |-> "Vertex", f |-> "Face",
     l |-> "Line", p |-> "Point", o |-> "Object", g |-> "Group", s |-> "Smoothing",
     bevel |-> "Bevel", c_interp |-> "CInterp", d_interp |-> "DInterp", lod |-> "Lod",
     shadow_obj |-> "ShadowObj", trace_obj |-> "TraceObj", maplib |-> "TextureMapLib",
     usemap |-> "UseTextureMap"]

\* mutant: the text matched is looked up as written
kw_map_obj_exact(value) ==
    IF value \in DOMAIN ObjKeywords THEN Kw(ObjKeywords[value]) ELSE Ignore

\* match value.to_lowercase().as_ref() { .. _ => Token::Ignore }
kw_map_obj(value) ==
    IF to_lowercase(value) \in DOMAIN ObjKeywords
    THEN Kw(ObjKeywords[to_lowercase(value)])
    ELSE Ignore

MtlTags ==
    <<"newmtl", "spectral", "xyz", "sharpness", "illum", "map_disp", "map_Ka",
      "map_Kd", "map_Ks", "map_Ns", "map_aat", "map_d", "disp", "decal", "bump",
      "refl", "-halo", "-type", "-texres", "-blendu", "-blendv", "-boost", "-clamp",
      "-imfchan", "-bm", "-cc", "-mm", "-o", "-s", "-t", "ka", "kd", "ks", "ke",
      "ns", "tr", "Tf", "Ni", "d">>

MtlKeywords ==
    [newmtl |-> "NewMaterial", ka |-> "AmbientColor", kd |-> "DiffuseColor",
     ks |-> "SpecularColor", ke |-> "EmissiveCoefficient", ns |-> "SpecularExponent",
     tr |-> "Transparancy", spectral |-> "Spectral", xyz |-> "Xyz", d |-> "Disolved",
     tf |-> "TransmissionFactor", sharpness |-> "Sharpness",
     ni |-> "IndexOfRefraction", illum |-> "IlluminationModel",
     map_disp |-> "DisplacementMap", map_ka |-> "TextureMapAmbient",
     map_kd |-> "TextureMapDiffuse", map_ks |-> "TextureMapSpecular",
     map_ns |-> "TextureMapShininess", map_aat |-> "AntiAliasMap",
     map_d |-> "TextureMapDisolved", disp |-> "DisplacementMap", decal |-> "Decal",
     bump |-> "BumpMap", refl |-> "ReflectionMap"]
    @@ ("-halo" :> "Halo") @@ ("-type" :> "ReflectionType")
    @@ ("-texres" :> "OptionTextureResolution") @@ ("-blendu" :> "OptionBlendU")
    @@ ("-blendv" :> "OptionBlendV") @@ ("-bm" :> "OptionBumpMultiplier")
    @@ ("-boost" :> "OptionBoost") @@ ("-cc" :> "OptionColorCorrect")
    @@ ("-clamp" :> "OptionClamp") @@ ("-imfchan" :> "OptionIMFChan")
    @@ ("-mm" :> "OptionRange") @@ ("-o" :> "OptionOffset")
    @@ ("-s" :> "OptionScale") @@ ("-t" :> "OptionTurbulence")

kw_map_mtl(value) ==
    IF to_lowercase(value) \in DOMAIN MtlKeywords
    THEN Kw(MtlKeywords[to_lowercase(value)])
    ELSE Ignore

\* delimited(multispace0, map(alt([..]), kw_map), multispace1) after its
\* alt: t is the tag matched, the keyword needs whitespace behind it
keyword_obj_end(t) ==
    IF ~t.ok THEN Err
    ELSE IF span(t.rest, MultiSpace) = 0 THEN Err
    ELSE Ok(drop(t.rest, span(t.rest, MultiSpace)), kw_map_obj(t.out))

keyword_obj(in) == keyword_obj_end(alt_tags(drop(in, span(in, MultiSpace)), ObjTags))

keyword_mtl_end(t) ==
    IF ~t.ok THEN Err
    ELSE IF span(t.rest, MultiSpace) = 0 THEN Err
    ELSE Ok(drop(t.rest, span(t.rest, MultiSpace)), kw_map_mtl(t.out))

keyword_mtl(in) == keyword_mtl_end(alt_tags(drop(in, span(in, MultiSpace)), MtlTags))

slash(in) == IF tag(in, "/").ok THEN Ok(drop(in, 1), TSlash) ELSE Err

\* opt(alt((tag("+"), tag("-")))): the sign written, "" for none
sign_of(in) == IF in # "" /\ Head(in) \in {"+", "-"} THEN Head(in) ELSE ""

\* str::parse::<i32>() on digits: None when the value does not fit
RECURSIVE i32_parse(_, _)
i32_parse(s, acc) ==
    IF s = "" THEN Some(acc)
    ELSE IF acc > (2147483647 - DigitOf[Head(s)]) \div 10 THEN None
    ELSE i32_parse(Tail(s), 10 * acc + DigitOf[Head(s)])

i32_or_default(s) == IF i32_parse(s, 0) = None THEN 0 ELSE i32_parse(s, 0)[1]

\* mutant: the sign is taken and not applied
digits_token_unsigned(sg, in) ==
    IF span(in, Digits) = 0 THEN Err
    ELSE Ok(drop(in, span(in, Digits)), TInt(i32_or_default(take(in, span(in, Digits)))))

\* parse_digit after its sign
digits_token(sg, in) ==
    IF span(in, Digits) = 0 THEN Err
    ELSE Ok(drop(in, span(in, Digits)),
            TInt(IF sg = "-" THEN 0 - i32_or_default(take(in, span(in, Digits)))
                 ELSE i32_or_default(take(in, span(in, Digits)))))

parse_digit(in) == digits_token(sign_of(in), drop(in, Len(sign_of(in))))

\* opt((alt((tag("e"), tag("E"))), opt(sign), digit1)): the text it takes,
\* "" when it does not match
exponent_of(in) ==
    IF in = "" THEN ""
    ELSE IF Head(in) \notin {"e", "E"} THEN ""
    ELSE IF span(drop(Tail(in), Len(sign_of(Tail(in)))), Digits) = 0 THEN ""
    ELSE take(in, 1 + Len(sign_of(Tail(in)))
                    + span(drop(Tail(in), Len(sign_of(Tail(in)))), Digits))

RECURSIVE pow10(_)
pow10(n) == IF n = 0 THEN 1 ELSE 10 * pow10(n - 1)

\* the decimal exponent an exponent text stands for
exponent_value(e) ==
    IF e = "" THEN 0
    ELSE IF sign_of(Tail(e)) = "-" THEN 0 - i32_or_default(drop(e, 2))
    ELSE i32_or_default(drop(e, 1 + Len(sign_of(Tail(e)))))

\* mantissa * 10^p, cut to an integer
scale10(mantissa, p) ==
    IF p >= 0 THEN mantissa * pow10(p) ELSE mantissa \div pow10(0 - p)

\* [f, ".", s, e].join("").parse::<f32>().unwrap_or_default(), in tenths:
\* the text needs a digit before or after the point
f32_or_default(f, s, e) ==
    IF f = "" /\ s = "" THEN 0
    ELSE scale10(i32_or_default(f \o s), exponent_value(e) - Len(s) + 1)

\* the digits, the point, the digits and the exponent taken from in
float_token(sg, in, nf, ns) ==
    Ok(drop(in, nf + 1 + ns + Len(exponent_of(drop(in, nf + 1 + ns)))),
       TFloat((IF sg = "-" THEN -1 ELSE 1)
              * f32_or_default(take(in, nf), SubSeq(in, nf + 2, nf + 1 + ns),
                               exponent_of(drop(in, nf + 1 + ns)))))

\* (fold_many0(digit1), tag("."), opt(fold_many1(digit1)), opt(exponent))
float_digits_point(sg, in) ==
    IF ~tag(drop(in, span(in, Digits)), ".").ok THEN Err
    ELSE float_token(sg, in, span(in, Digits),
                     span(drop(in, span(in, Digits) + 1), Digits))

\* (opt(fold_many1(digit1)), tag("."), fold_many1(digit1), opt(exponent))
float_point_digits(sg, in) ==
    IF ~tag(drop(in, span(in, Digits)), ".").ok THEN Err
    ELSE IF span(drop(in, span(in, Digits) + 1), Digits) = 0 THEN Err
    ELSE float_token(sg, in, span(in, Digits),
                     span(drop(in, span(in, Digits) + 1), Digits))

float_after_sign(sg, in) ==
    first_ok(<<float_digits_point(sg, in), float_point_digits(sg, in)>>)

parse_float(in) == float_after_sign(sign_of(in), drop(in, Len(sign_of(in))))

\* mutant: the comment ends at the first whitespace
comment_one_word(in) ==
    IF ~tag(in, "#").ok THEN Err
    ELSE Ok(drop(in, 1 + span_not(Tail(in), MultiSpace)), Ignore)

\* preceded(tag("#"), take_till(|c| c == '\n' || c == '\r'))
comment(in) ==
    IF ~tag(in, "#").ok THEN Err
    ELSE Ok(drop(in, 1 + span_not(Tail(in), {"\n", "\r"})), Ignore)

\* alt((line_ending, multispace1))
whitespace(in) ==
    IF tag(in, "\n").ok THEN Ok(drop(in, 1), Ignore)
    ELSE IF tag(in, "\r\n").ok THEN Ok(drop(in, 2), Ignore)
    ELSE IF span(in, MultiSpace) = 0 THEN Err
    ELSE Ok(drop(in, span(in, MultiSpace)), Ignore)

\* is_not(stops) as Token::String
string_token(in, stops) ==
    IF span_not(in, stops) = 0 THEN Err
    ELSE Ok(drop(in, span_not(in, stops)), TStr(take(in, span_not(in, stops))))

\* the alt((..)) of parse_obj
lex_obj(in) ==
    first_ok(<<keyword_obj(in), slash(in), parse_float(in), parse_digit(in),
               comment(in), whitespace(in), string_token(in, {"\r", "\n"})>>)

\* the alt((..)) of parse_mtl
lex_mtl(in) ==
    first_ok(<<keyword_mtl(in), parse_float(in), parse_digit(in),
               comment(in), whitespace(in), string_token(in, {" ", "\r", "\n"})>>)

\* the fold of fold_many0: Token::Ignore is not pushed
push_token(acc, item) == IF item = Ignore THEN acc ELSE Append(acc, item)

RECURSIVE fold_obj(_, _)
\* fold_many0 ends at the first Err of its alt((..)); `Ok((_, v)) => Ok(v.into())`
fold_obj_next(r, acc) ==
    IF ~r.ok THEN acc ELSE fold_obj(r.rest, push_token(acc, r.out))

fold_obj(in, acc) == fold_obj_next(lex_obj(in), acc)

parse_obj(in) == fold_obj(in, <<>>)

RECURSIVE fold_mtl(_, _)
fold_mtl_next(r, acc) ==
    IF ~r.ok THEN acc ELSE fold_mtl(r.rest, push_token(acc, r.out))

fold_mtl(in, acc) == fold_mtl_next(lex_mtl(in), acc)

parse_mtl(in) == fold_mtl(in, <<>>)

(***************************************************************************)
(* The tokenizers on a text and on the same text with its keywords in      *)
(* another letter case                                                     *)
(***************************************************************************)
\* a piece of text: a keyword as the format writes it, or anything else
K(s) == [kw |-> TRUE, s |-> s]
L(s) == [kw |-> FALSE, s |-> s]

T_obj_vertices ==
    <<K("v"), L(" 1 -2 3.5\n"), K("vn"), L(" 0 0 1\n"), K("vt"), L(" .5 1\n"), K("vp"),
      L(" 1\n")>>

T_obj_elements ==
    <<K("f"), L(" 1/1 2/2 3/3\n"), K("l"), L(" 1 2\n"), K("p"), L(" 1\n")>>

T_obj_names ==
    <<K("g"), L(" Top\n"), K("o"), L(" vase\n"), K("s"), L(" off\n")>>

T_obj_files ==
    <<K("mtllib"), L(" a.mtl\n"), K("usemtl"), L(" Mat_One\n"), K("maplib"),
      L(" t.lib\n"), K("usemap"), L(" Tex\n")>>

T_obj_flags ==
    <<K("bevel"), L(" on\n"), K("c_interp"), L(" on\n"), K("d_interp"), L(" off\n"),
      K("lod"), L(" 2\n")>>

T_obj_shadow ==
    <<K("shadow_obj"), L(" S.obj\n"), K("trace_obj"), L(" t.obj\n")>>

T_mtl_colors ==
    <<K("newmtl"), L(" m\n"), K("Ka"), L(" 1 0 0\n"), K("Kd"), L(" "), K("spectral"),
      L(" f.rfl 2\n"), K("Ks"), L(" "), K("xyz"), L(" 1\n"), K("Ke"), L(" 0 0 0\n")>>

T_mtl_numbers ==
    <<K("Ns"), L(" 10\n"), K("Tr"), L(" 0.5\n"), K("Tf"), L(" 1 1 1\n"), K("Ni"),
      L(" 1.5\n"), K("sharpness"), L(" 60\n"), K("illum"), L(" 2\n"), K("d"), L(" "),
      K("-halo"), L(" 1.0\n")>>

T_mtl_on_off ==
    <<K("map_Ka"), L(" "), K("-blendu"), L(" on "), K("-blendv"), L(" off "), K("-cc"),
      L(" ON "), K("-clamp"), L(" off t.png\n"), K("map_aat"), L(" on\n")>>

T_mtl_options ==
    <<K("map_Kd"), L(" "), K("-mm"), L(" 0 1 "), K("-o"), L(" 1 2 "), K("-s"),
      L(" 1 "), K("-t"), L(" 1 "), K("-texres"), L(" 256 T.png\n"), K("map_Ns"),
      L(" "), K("-imfchan"), L(" r t.png\n")>>

T_mtl_maps ==
    <<K("map_Ks"), L(" t.png\n"), K("map_d"), L(" t.png\n"), K("disp"), L(" d.png\n"),
      K("map_disp"), L(" d.png\n"), K("decal"), L(" d.png\n"), K("bump"), L(" "),
      K("-bm"), L(" 2 "), K("-boost"), L(" 1 b.png\n"), K("refl"), L(" "), K("-type"),
      L(" sphere r.png\n")>>

ObjTexts == {T_obj_vertices, T_obj_elements, T_obj_names, T_obj_files, T_obj_flags, T_obj_shadow}
MtlTexts == {T_mtl_colors, T_mtl_numbers, T_mtl_on_off, T_mtl_options, T_mtl_maps}

char_to_uppercase(c) == IF c \in LowerLetters THEN UpperOf[c] ELSE c

\* the letter cases a keyword is rewritten in
Cases == {"lower", "upper", "swapped"}

RECURSIVE recase(_, _)
recase(s, case) ==
    IF s = "" THEN ""
    ELSE (CASE case = "lower" -> char_to_lowercase(Head(s))
            [] case = "upper" -> char_to_uppercase(Head(s))
            [] case = "swapped" -> IF Head(s) \in LowerLetters
                                   THEN char_to_uppercase(Head(s))
                                   ELSE char_to_lowercase(Head(s))
            [] OTHER -> Head(s)) \o recase(Tail(s), case)

\* the text of the pieces, its keywords in the given case
RECURSIVE render(_, _)
render(pieces, case) ==
    IF pieces = <<>> THEN ""
    ELSE (IF Head(pieces).kw THEN recase(Head(pieces).s, case) ELSE Head(pieces).s)
             \o render(Tail(pieces), case)

InitCase ==
    /\ \E format \in {"obj", "mtl"} :
       \E ts \in SeqsUpTo(IF format = "obj" THEN ObjTexts ELSE MtlTexts, MaxLines) :
       \E case \in Cases :
           text = [format |-> format,
                   keywords |-> Cardinality({i \in DOMAIN Flatten(ts) : Flatten(ts)[i].kw}),
                   written |-> render(Flatten(ts), "as written"),
                   recased |-> render(Flatten(ts), case)]
    /\ parsed = [kind |-> "none"]
    /\ IdleColorless

TokenizeObj ==
    /\ parsed.kind = "none"
    /\ text.format = "obj"
    /\ parsed' = [kind |-> "obj", toks |-> parse_obj(text.written),
                  toks2 |-> parse_obj(text.recased)]
    /\ UNCHANGED <<tokens, input, objVars, mtlVars, text>>

TokenizeMtl ==
    /\ parsed.kind = "none"
    /\ text.format = "mtl"
    /\ parsed' = [kind |-> "mtl", toks |-> parse_mtl(text.written),
                  toks2 |-> parse_mtl(text.recased)]
    /\ UNCHANGED <<tokens, input, objVars, mtlVars, text>>

NextCase == TokenizeObj \/ TokenizeMtl

SpecCase == InitCase /\ [][NextCase]_vars

IsKeyword(tok) == tok.t \notin {"Int", "Float", "String", "Slash"}

\* C20: a text and the same text with its keywords in another letter case
\* have the same token sequence, in which every keyword written is a
\* keyword token
C20_KeywordCaseIrrelevant ==
    parsed.kind \in {"obj", "mtl"} =>
        /\ parsed.toks2 = parsed.toks
        /\ Cardinality({i \in DOMAIN parsed.toks2 : IsKeyword(parsed.toks2[i])})
               = text.keywords

C20_Witness ==
    /\ parsed.kind = "mtl"
    /\ text.recased = render(T_mtl_colors, "swapped")
    /\ text.recased # text.written
    /\ parsed.toks2 =
           <<Kw("NewMaterial"), TStr("m"), Kw("AmbientColor"), TInt(1), TInt(0), TInt(0),
             Kw("DiffuseColor"), Kw("Spectral"), TStr("f.rfl"), TInt(2),
             Kw("SpecularColor"), Kw("Xyz"), TInt(1),
             Kw("EmissiveCoefficient"), TInt(0), TInt(0), TInt(0)>>

(***************************************************************************)
(* The tokenizers on a text with comments and on the same text with the    *)
(* comments taken out                                                      *)
(***************************************************************************)
\* a line: its code, a comment written where a token would start, its line
\* ending, and the tokens the code stands for
CLine(code, cmt, end, toks) == [code |-> code, cmt |-> cmt, end |-> end, toks |-> toks]

ObjCommentLines ==
    {CLine("", "# whatever this is a comment", "\n", <<>>),
     CLine("", "#whatever this is a comment", "\r\n", <<>>),
     CLine("", "#", "\n", <<>>),
     CLine("    ", "#  Normals but no textures", "\n", <<>>),
     CLine("l ", "# blah blah blah", "\n", <<Kw("Line")>>),
     CLine("g ", "#top", "\r\n", <<Kw("Group")>>),
     CLine("v 1 2 3.5", "# v 4 5 6", "\n", <<Kw("Vertex"), TInt(1), TInt(2), TFloat(35)>>),
     CLine("f 1/2 3/", "#/4 # f", "\n",
           <<Kw("Face"), TInt(1), TSlash, TInt(2), TInt(3), TSlash>>),
     CLine("p 1 2", "", "\n", <<Kw("Point"), TInt(1), TInt(2)>>)}

MtlCommentLines ==
    {CLine("", "# whatever this is a comment", "\n", <<>>),
     CLine("", "#whatever this is a comment", "\r\n", <<>>),
     CLine("", "#", "\n", <<>>),
     CLine("\t", "# Material Count: 1", "\n", <<>>),
     CLine("newmtl ", "# m", "\n", <<Kw("NewMaterial")>>),
     CLine("newmtl m ", "#Ka 1 0 0", "\r\n", <<Kw("NewMaterial"), TStr("m")>>),
     CLine("Ka 1 0 0.5", "# Kd 1 1 1", "\n",
           <<Kw("AmbientColor"), TInt(1), TInt(0), TFloat(5)>>),
     CLine("map_Kd -blendu ", "# on t.png", "\n",
           <<Kw("TextureMapDiffuse"), Kw("OptionBlendU")>>),
     CLine("illum 2", "", "\n", <<Kw("IlluminationModel"), TInt(2)>>)}

\* the text of the lines; the last line keeps its ending when closed
RECURSIVE with_comments(_, _)
with_comments(ls, closed) ==
    IF ls = <<>> THEN ""
    ELSE Head(ls).code \o Head(ls).cmt
         \o (IF Len(ls) = 1 /\ ~closed THEN "" ELSE Head(ls).end)
         \o with_comments(Tail(ls), closed)

RECURSIVE without_comments(_, _)
without_comments(ls, closed) ==
    IF ls = <<>> THEN ""
    ELSE Head(ls).code
         \o (IF Len(ls) = 1 /\ ~closed THEN "" ELSE Head(ls).end)
         \o without_comments(Tail(ls), closed)

RECURSIVE tokens_of_lines(_)
tokens_of_lines(ls) ==
    IF ls = <<>> THEN <<>> ELSE Head(ls).toks \o tokens_of_lines(Tail(ls))

\* the second text tokenized is the first without its comments
InitComment ==
    /\ \E format \in {"obj", "mtl"} :
       \E ls \in SeqsUpTo(IF format = "obj" THEN ObjCommentLines ELSE MtlCommentLines,
                          MaxCommentLines) \ {<<>>} :
       \E closed \in BOOLEAN :
           text = [format |-> format,
                   keywords |-> Cardinality({i \in DOMAIN tokens_of_lines(ls) :
                                               tokens_of_lines(ls)[i].t \notin
                                                   {"Int", "Float", "String", "Slash"}}),
                   written |-> with_comments(ls, closed),
                   recased |-> without_comments(ls, closed),
                   expected |-> tokens_of_lines(ls)]
    /\ parsed = [kind |-> "none"]
    /\ IdleColorless

SpecComment == InitComment /\ [][NextCase]_vars

\* C21: a comment written where a token would start gives no token up to
\* the end of its line: the tokens of the text are the tokens of its code,
\* the same as those of the text without its comments; a keyword followed
\* only by a comment gives the keyword token alone and a text of comment
\* lines gives no token
C21_CommentGivesNoToken ==
    parsed.kind \in {"obj", "mtl"} =>
        /\ parsed.toks = text.expected
        /\ parsed.toks = parsed.toks2

C21_Witness ==
    /\ parsed.kind = "obj"
    /\ text.written = "l # blah blah blah\n#"
    /\ parsed.toks = <<Kw("Line")>>

(***************************************************************************)
(* The tokenizers on a numeric literal written among other tokens          *)
(***************************************************************************)
Signs == {"", "+", "-"}

\* digits before the point and the number they stand for; "" for none
Wholes == {[s |-> "", v |-> 0], [s |-> "0", v |-> 0], [s |-> "7", v |-> 7],
           [s |-> "12", v |-> 12], [s |-> "007", v |-> 7]}

\* digits after the point and the tenths they stand for; "" for none
Fracs == {[s |-> "", tenths |-> 0], [s |-> "0", tenths |-> 0], [s |-> "5", tenths |-> 5],
          [s |-> "25", tenths |-> 2]}

Negated(sg, n) == IF sg = "-" THEN 0 - n ELSE n

IntLiterals ==
    {[s |-> sg \o w.s, tok |-> TInt(Negated(sg, w.v))] :
        sg \in Signs, w \in {x \in Wholes : x.s # ""}}

FloatLiterals ==
    {[s |-> sg \o wf[1].s \o "." \o wf[2].s,
      tok |-> TFloat(Negated(sg, 10 * wf[1].v + wf[2].tenths))] :
        sg \in Signs, wf \in {x \in Wholes \X Fracs : x[1].s # "" \/ x[2].s # ""}}

\* what is written around the literal, and the tokens it stands for
Around(before, after, toks, toks2) ==
    [before |-> before, after |-> after, toks |-> toks, toks2 |-> toks2]

ObjAround ==
    {Around("", "", <<>>, <<>>),
     Around("v ", " 1\n", <<Kw("Vertex")>>, <<TInt(1)>>),
     Around("vt 1.5\t", "", <<Kw("VertexTexture"), TFloat(15)>>, <<>>),
     Around("f 2/", "/3\n", <<Kw("Face"), TInt(2), TSlash>>, <<TSlash, TInt(3)>>)}

MtlAround ==
    {Around("", "", <<>>, <<>>),
     Around("Ns ", "\n", <<Kw("SpecularExponent")>>, <<>>),
     Around("Ka 1.5\t", " 0", <<Kw("AmbientColor"), TFloat(15)>>, <<TInt(0)>>),
     Around("-mm ", " 1\r\n", <<Kw("OptionRange")>>, <<TInt(1)>>)}

\* one text is tokenized: the second text is the first
InitNumber ==
    /\ \E format \in {"obj", "mtl"} :
       \E lit \in IntLiterals \cup FloatLiterals :
       \E a \in (IF format = "obj" THEN ObjAround ELSE MtlAround) :
           text = [format |-> format,
                   written |-> a.before \o lit.s \o a.after,
                   recased |-> a.before \o lit.s \o a.after,
                   literal |-> lit.s,
                   expected |-> a.toks \o <<lit.tok>> \o a.toks2]
    /\ parsed = [kind |-> "none"]
    /\ IdleColorless

SpecNumber == InitNumber /\ [][NextCase]_vars

\* C22: an optional sign and digits are one Int token, digits and a point
\* with a digit on at least one side are one Float token, and the token
\* carries the number written, negated after a `-`
C22_NumberIsOneToken ==
    parsed.kind \in {"obj", "mtl"} => parsed.toks = text.expected

C22_Witness ==
    /\ parsed.kind = "obj"
    /\ text.written = "f 2/-.5/3\n"
    /\ parsed.toks = <<Kw("Face"), TInt(2), TSlash, TFloat(-5), TSlash, TInt(3)>>

(***************************************************************************)
(* parse_digit on signed digit strings around the ends of i32              *)
(***************************************************************************)
\* digits, and the number they stand for when written without a `-` and
\* after one: None when that number is no i32
Magnitude(s, plain, minus) == [s |-> s, plain |-> plain, minus |-> minus]

Magnitudes ==
    {Magnitude("0", Some(0), Some(0)),
     Magnitude("7", Some(7), Some(-7)),
     Magnitude("0012", Some(12), Some(-12)),
     Magnitude("2147483646", Some(2147483646), Some(-2147483646)),
     Magnitude("2147483647", Some(2147483647), Some(-2147483647)),
     Magnitude("00000000002147483647", Some(2147483647), Some(-2147483647)),
     Magnitude("2147483648", None, Some(-2147483647 - 1)),
     Magnitude("2147483649", None, None),
     Magnitude("4294967303", None, None),
     Magnitude("9999999999", None, None),
     Magnitude("12345678901234567890", None, None)}

AfterDigits == {"", " 2\n", "/3", "\r\n"}

InitDigit ==
    /\ \E sg \in Signs, m \in Magnitudes, after \in AfterDigits :
           text = [written |-> sg \o m.s \o after,
                   literal |-> sg \o m.s,
                   after |-> after,
                   exact |-> IF sg = "-" THEN m.minus ELSE m.plain]
    /\ parsed = [kind |-> "none"]
    /\ IdleColorless

LexDigit ==
    /\ parsed.kind = "none"
    /\ parsed' = [kind |-> "digit", r |-> parse_digit(text.written)]
    /\ UNCHANGED <<tokens, input, objVars, mtlVars, text>>

NextDigit == LexDigit

SpecDigit == InitDigit /\ [][NextDigit]_vars

\* C23: parse_digit on an optionally signed digit string gives an Int token
\* and leaves what follows the digits: the token carries the number written
\* when that number is an i32 (-2147483648 to 2147483647), and 0 otherwise
C23_IntExactOrZero ==
    parsed.kind = "digit" =>
        parsed.r = Ok(text.after,
                      TInt(IF text.exact = None THEN 0 ELSE text.exact[1]))

(***************************************************************************)
(* The tokenizers on a keyword and the words written after it              *)
(***************************************************************************)
PlainWords == {"Top", "a", "some_group", "lib.mtl", "on"}
Blanks == {" ", "\t"}

\* keywords that take words, as written, and their tokens
ObjWordKeywords ==
    {[s |-> "g", tok |-> Kw("Group")], [s |-> "mtllib", tok |-> Kw("MaterialLib")],
     [s |-> "usemtl", tok |-> Kw("UseMaterial")]}

MtlWordKeywords ==
    {[s |-> "newmtl", tok |-> Kw("NewMaterial")],
     [s |-> "map_Ka", tok |-> Kw("TextureMapAmbient")],
     [s |-> "-imfchan", tok |-> Kw("OptionIMFChan")]}

\* the words, the blank between one and the next
RECURSIVE join(_, _)
join(ws, blank) ==
    IF ws = <<>> THEN ""
    ELSE IF Len(ws) = 1 THEN ws[1]
    ELSE ws[1] \o blank \o join(Tail(ws), blank)

\* one text is tokenized: the second text is the first
InitWords ==
    /\ \E format \in {"obj", "mtl"} :
       \E k \in (IF format = "obj" THEN ObjWordKeywords ELSE MtlWordKeywords) :
       \E ws \in SeqsUpTo(PlainWords, MaxWords) \ {<<>>} :
       \E blank \in Blanks :
           text = [format |-> format,
                   written |-> k.s \o " " \o join(ws, blank) \o "\n",
                   recased |-> k.s \o " " \o join(ws, blank) \o "\n",
                   words |-> ws,
                   expected |-> <<k.tok>> \o [i \in DOMAIN ws |-> TStr(ws[i])]]
    /\ parsed = [kind |-> "none"]
    /\ IdleColorless

SpecWords == InitWords /\ [][NextCase]_vars

HasBlank(s) == span_not(s, Blanks) < Len(s)

\* C24: no String token holds a space or a tab, and the words written after
\* a keyword with blanks between them are one String token each
C24_StringIsOneWord ==
    parsed.kind \in {"obj", "mtl"} =>
        /\ \A i \in DOMAIN parsed.toks :
               parsed.toks[i].t = "String" => ~HasBlank(parsed.toks[i].s)
        /\ parsed.toks = text.expected

(***************************************************************************)
(* The tokenizers on a keyword and one word that begins with digits        *)
(***************************************************************************)
DigitWords ==
    {"2k_texture.png", "01_Default", "1e5", "3d", "7up.mtl", "2.5D", "10x10", "0_o"}

LineEnds == {"", "\n", "\r\n"}

\* one text is tokenized: the second text is the first
InitDigitWord ==
    /\ \E format \in {"obj", "mtl"} :
       \E k \in (IF format = "obj" THEN ObjWordKeywords ELSE MtlWordKeywords) :
       \E w \in DigitWords, blank \in Blanks, end \in LineEnds :
           text = [format |-> format,
                   written |-> k.s \o blank \o w \o end,
                   recased |-> k.s \o blank \o w \o end,
                   word |-> w,
                   keyword |-> k.tok]
    /\ parsed = [kind |-> "none"]
    /\ IdleColorless

SpecDigitWord == InitDigitWord /\ [][NextCase]_vars

\* C25: a word that begins with digits and goes on with other characters is
\* one token: the text of a keyword and such a word has two tokens
C25_DigitWordIsOneToken ==
    parsed.kind \in {"obj", "mtl"} =>
        /\ Len(parsed.toks) = 2
        /\ parsed.toks[1] = text.keyword

(***************************************************************************)
(* parse_float on texts with and without digits around a decimal point     *)
(***************************************************************************)
AfterFloat == {"", "/file.mtl", " 1\n", "e1"}

InitFloat ==
    /\ \E sg \in Signs, w \in Wholes, f \in Fracs, after \in AfterFloat :
       \E point \in {"", "."} :
           /\ point = "" => f.s = ""
           /\ text = [written |-> sg \o w.s \o point \o f.s \o after,
                      point |-> point = ".",
                      digits |-> Len(w.s) + Len(f.s)]
    /\ parsed = [kind |-> "none"]
    /\ IdleColorless

LexFloat ==
    /\ parsed.kind = "none"
    /\ parsed' = [kind |-> "float", r |-> parse_float(text.written)]
    /\ UNCHANGED <<tokens, input, objVars, mtlVars, text>>

NextFloat == LexFloat

SpecFloat == InitFloat /\ [][NextFloat]_vars

\* C26: parse_float matches only a text with a decimal point and a digit
\* before or after it; a point with no digit on either side, alone or after
\* a sign, is no match
C26_FloatNeedsADigit ==
    (parsed.kind = "float" /\ parsed.r.ok) => (text.point /\ text.digits > 0)

(***************************************************************************)
(* parse_obj, then parse_face or parse_line, on a directive whose index    *)
(* groups end with a slash                                                 *)
(***************************************************************************)
\* a vertex index as written
IndexText == (1 :> "1") @@ (2 :> "2") @@ (3 :> "3")

\* an index group that ends with a slash: v/, v// or v/7/, and the texture
\* index written in it
SlashGroup(v, s, t) == [v |-> v, s |-> s, t |-> t]

SlashGroups ==
    {SlashGroup(v, s, None) : v \in DOMAIN IndexText, s \in {"/", "//"}}
        \cup {SlashGroup(v, "/7/", Some(7)) : v \in DOMAIN IndexText}

written_groups(gs) == join([i \in DOMAIN gs |-> IndexText[gs[i].v] \o gs[i].s], " ")

\* a line group has at most one slash
InitTrailing ==
    /\ \E directive \in {"f", "l"} :
       \E gs \in SeqsUpTo(IF directive = "f" THEN SlashGroups
                          ELSE {g \in SlashGroups : g.s = "/"}, MaxSlashGroups) \ {<<>>} :
           text = [directive |-> directive,
                   groups |-> gs,
                   written |-> directive \o " " \o written_groups(gs)]
    /\ parsed = [kind |-> "none"]
    /\ IdleColorless

\* test/obj.rs: parse_obj(vert), then model::parse_face(&tokens)
TokenizeParseFace ==
    /\ parsed.kind = "none"
    /\ text.directive = "f"
    /\ parsed' = [kind |-> "f", r |-> parse_face(parse_obj(text.written))]
    /\ UNCHANGED <<tokens, input, objVars, mtlVars, text>>

\* test/obj.rs: parse_obj(vert), then model::parse_line(&tokens)
TokenizeParseLine ==
    /\ parsed.kind = "none"
    /\ text.directive = "l"
    /\ parsed' = [kind |-> "l", r |-> parse_line(parse_obj(text.written))]
    /\ UNCHANGED <<tokens, input, objVars, mtlVars, text>>

NextTrailing == TokenizeParseFace \/ TokenizeParseLine

SpecTrailing == InitTrailing /\ [][NextTrailing]_vars

\* C27: a slash with no integer behind it in its index group leaves the slot
\* absent: a face or line directive whose groups end with a slash yields
\* one element per group, with the vertex index of the group and no index
\* that is not written in the group
C27_TrailingSlashLeavesSlotAbsent ==
    /\ parsed.kind = "f" =>
           /\ parsed.r.ok
           /\ parsed.r.rest = <<>>
           /\ parsed.r.out.elements =
                  [i \in DOMAIN text.groups |->
                       [vertex_index |-> text.groups[i].v,
                        texture_index |-> text.groups[i].t,
                        normal_index |-> None]]
    /\ parsed.kind = "l" =>
           /\ parsed.r.ok
           /\ parsed.r.rest = <<>>
           /\ parsed.r.out.elements =
                  [i \in DOMAIN text.groups |->
                       [vertex_index |-> text.groups[i].v,
                        texture_index |-> text.groups[i].t]]

(***************************************************************************)
(* The keys of the group-settings map                                      *)
(***************************************************************************)
\* C28: in every state of the reduction the active group list is not empty,
\* its names are keys of the group-settings map, "default" is a key of it,
\* and so is every key of the faces, lines and points maps
C28_GroupKeysCoverFiling ==
    /\ model.current_group # <<>>
    /\ Range(model.current_group) \subseteq DOMAIN model.groups
    /\ "default" \in DOMAIN model.groups
    /\ DOMAIN model.faces \subseteq DOMAIN model.groups
    /\ DOMAIN model.lines \subseteq DOMAIN model.groups
    /\ DOMAIN model.points \subseteq DOMAIN model.groups

C28_Witness ==
    /\ obj_result = "Ok"
    /\ model.current_group = <<"b", "a">>
    /\ DOMAIN model.groups = {"default", "a", "b"}
    /\ DOMAIN model.lines = {"default"}
    /\ DOMAIN model.faces = {"a", "b"}
    /\ DOMAIN model.points = {"a", "b"}

(***************************************************************************)
(* The records of material::parse and the new-material elements            *)
(***************************************************************************)
NameElements == SelectSeq(elements, LAMBDA e : e.e = "Name")

\* an iteration of the for loop that ends without the return
LoopIterated ==
    mtl_result = "reducing" /\ mtl_result' = "reducing" /\ applied' = applied + 1

\* C29: the list returned has one record per new-material element, in the
\* order and with the names of these elements, also when two of them have
\* the same name; a new-material element adds a record and leaves the
\* records before it as they are, any other element changes no record but
\* the last
C29_OneRecordPerNewMaterial ==
    /\ [](mtl_result = "Ok" =>
              /\ Len(res) = Len(NameElements)
              /\ \A j \in DOMAIN res : res[j].name = NameElements[j].name)
    /\ [][LoopIterated =>
              IF elements[applied'].e = "Name"
              THEN Len(res') = Len(res) + 1 /\ SubSeq(res', 1, Len(res)) = res
              ELSE /\ Len(res') = Len(res)
                   /\ \A j \in 1..(Len(res) - 1) : res'[j] = res[j]]_vars

C29_Witness ==
    /\ mtl_result = "Ok"
    /\ tokens = M_a \o M_Ka \o M_a \o M_Ka2
    /\ Len(res) = 2
    /\ res[1].name = "a" /\ res[2].name = "a"
    /\ res[1].ambient = Some(elements[2].color)
    /\ res[2].ambient = Some(elements[4].color)
    /\ res[1].ambient # res[2].ambient

(***************************************************************************)
(* load_obj and load_mtl on a text: the tokenizer, then the parser         *)
(***************************************************************************)
\* lines that hold no token, and lines that hold some
TokenlessLines == {"", " ", "\t ", "#", "# c", "#newmtl a", "  # v 1 2 3"}
TokenLines == {"newmtl a", "Ka 1 0 0", "v 1 2 3"}

RECURSIVE lines_text(_)
lines_text(ls) == IF ls = <<>> THEN "" ELSE Head(ls) \o "\n" \o lines_text(Tail(ls))

InitLoad ==
    /\ \E ls \in SeqsUpTo(TokenlessLines \cup TokenLines, MaxLoadLines) :
           text = [written |-> lines_text(ls),
                   tokenless |-> \A i \in DOMAIN ls : ls[i] \in TokenlessLines]
    /\ parsed = [kind |-> "none"]
    /\ IdleColorless

\* lib.rs load_obj: tokenizer::parse_obj, then model::parse on the tokens
LoadObj ==
    /\ obj_result = "idle" /\ mtl_result = "idle"
    /\ tokens' = parse_obj(text.written)
    /\ input' = tokens'
    /\ obj_result' = "running"
    /\ UNCHANGED <<model, elems, mtlVars, idxVars>>

\* lib.rs load_mtl: tokenizer::parse_mtl, then material::parse on the tokens
LoadMtl ==
    /\ obj_result = "idle" /\ mtl_result = "idle"
    /\ tokens' = parse_mtl(text.written)
    /\ input' = tokens'
    /\ mtl_result' = "parsing"
    /\ UNCHANGED <<elements, applied, res, objVars, idxVars>>

NextLoad ==
    \/ LoadObj \/ ReduceVertex \/ ObjReturn
    \/ LoadMtl \/ Many1Element \/ Many1Err \/ Many1Ok
    \/ LoopStep \/ LoopErr \/ MtlReturn

SpecLoad == InitLoad /\ [][NextLoad]_vars

\* C30: on a text that gives no token (empty, white space only, comments
\* only) load_mtl ends with Err(Parse), not with an empty list, and load_obj
\* has nothing to reduce and returns Ok with the default model
C30_NoTokenMtlErrObjOk ==
    text.tokenless =>
        /\ tokens = <<>>
        /\ mtl_result \in {"idle", "parsing", "Err(Parse)"}
        /\ obj_result = "running" => ~parse_element(input).ok
        /\ obj_result = "Ok" => model = ModelDefault

C30_Witness ==
    /\ text.tokenless
    /\ text.written = "# c\n \n"
    /\ mtl_result = "Err(Parse)"
    /\ res = <<>>

====
